---- MODULE Spec2Model ----
(***************************************************************************)
(* Model of the score simplification pipeline of music-score-simplifier:   *)
(* ParsedScore -> analyzeScore -> simplifyScore -> exportScore.            *)
(*                                                                         *)
(* Numbers.  A duration is an integer number of ticks (1024 per beat).     *)
(* A startBeat of the source is a rational number of beats; it is kept     *)
(* here as the integer startBeat * BeatUnit, BeatUnit = 3 * 1024, so that  *)
(* halves, quarters, sixteenths and triplet thirds of a beat are exact.    *)
(* The exporter counts in divisions (256 per quarter note).                *)
(***************************************************************************)
EXTENDS Integers, Sequences, FiniteSets, TLC

TicksPerBeat == 1024
BeatUnit == 3 * TicksPerBeat
divisions == 256

\* bound: the largest number of notes of the measure under test
MaxNotes == 3

None == "none"

----------------------------------------------------------------------------
(* Arithmetic of the JavaScript built-ins the source uses *)

\* Math.round(n / d) for d > 0: floor(n/d + 1/2)
MathRound(n, d) == (2 * n + d) \div (2 * d)

\* Math.floor(n / d) for d > 0
MathFloor(n, d) == n \div d

\* a % b of JavaScript (the sign follows the dividend), b > 0
JsRem(a, b) == IF a >= 0 THEN a % b ELSE 0 - ((0 - a) % b)

Abs(x) == IF x >= 0 THEN x ELSE 0 - x

\* a position in beats (an integer number of beats) in BeatUnit
Beat(b) == b * BeatUnit

\* ticks expressed in BeatUnit (ticks / 1024 beats)
TicksToPos(t) == t * (BeatUnit \div TicksPerBeat)

----------------------------------------------------------------------------
(* Sequence helpers standing for Array.prototype methods *)

Range(s) == {s[i] : i \in 1..Len(s)}

MapSeq(F(_), s) == [i \in 1..Len(s) |-> F(s[i])]

\* Array.prototype.findIndex, 1-based: the index of the first element
\* satisfying P, or 0 when there is none
FindIndex(s, P(_)) ==
  LET idx == {i \in 1..Len(s) : P(s[i])}
  IN IF idx = {} THEN 0
     ELSE CHOOSE i \in idx : \A j \in idx : i <= j

\* Array.prototype.sort by an integer key: stable, ascending
SortByKey(s, K(_)) ==
  LET rank(i) == Cardinality({j \in 1..Len(s) :
                    K(s[j]) < K(s[i]) \/ (K(s[j]) = K(s[i]) /\ j < i)}) + 1
  IN [k \in 1..Len(s) |-> s[CHOOSE i \in 1..Len(s) : rank(i) = k]]

\* [...s].sort((a, b) => a.startBeat - b.startBeat)
SortByStart(s) == SortByKey(s, LAMBDA n : n.startBeat)

RECURSIVE SumSeq(_)
SumSeq(s) == IF s = << >> THEN 0 ELSE s[1] + SumSeq(Tail(s))

RECURSIVE Flatten(_)
Flatten(ss) == IF ss = << >> THEN << >> ELSE ss[1] \o Flatten(Tail(ss))

----------------------------------------------------------------------------
(* Knowledge base: src/knowledge/index.js *)

PITCH_TO_SEMITONE(step) ==
  CASE step = "C" -> 0 [] step = "D" -> 2 [] step = "E" -> 4
    [] step = "F" -> 5 [] step = "G" -> 7 [] step = "A" -> 9
    [] step = "B" -> 11 [] OTHER -> 0

\* pitch.octave || 4 : an octave of 0 reads as 4
pitchToMidi(pitch) ==
  ((IF pitch.octave = 0 THEN 4 ELSE pitch.octave) + 1) * 12
    + PITCH_TO_SEMITONE(pitch.step) + pitch.alter

\* TIME_SIGNATURE_DEFINITIONS[beats/beatType].strongBeats, default [1]
getStrongBeats(ts) ==
  CASE ts.beats = 2 /\ ts.beatType \in {4, 2} -> <<1>>
    [] ts.beats = 3 /\ ts.beatType \in {4, 8} -> <<1>>
    [] ts.beats = 4 /\ ts.beatType \in {4, 2} -> <<1, 3>>
    [] ts.beats = 5 /\ ts.beatType = 4 -> <<1, 3>>
    [] ts.beats = 6 /\ ts.beatType \in {4, 8} -> <<1, 4>>
    [] ts.beats = 7 /\ ts.beatType = 8 -> <<1, 4>>
    [] ts.beats = 9 /\ ts.beatType = 8 -> <<1, 4, 7>>
    [] ts.beats = 12 /\ ts.beatType = 8 -> <<1, 4, 7, 10>>
    [] OTHER -> <<1>>

\* strongBeats.includes(Math.floor(beat))
isStrongBeat(startBeat, ts) ==
  MathFloor(startBeat, BeatUnit) \in Range(getStrongBeats(ts))

\* DURATION_DEFINITIONS[type]?.ticks || 1024
DURATION_DEFINITIONS(type) ==
  CASE type = "whole" -> 4096
    [] type = "half" -> 2048
    [] type = "quarter" -> 1024
    [] type = "eighth" -> 512
    [] type = "sixteenth" -> 256
    [] type = "32nd" -> 128
    [] OTHER -> 1024

\* the ticks of a note type with its dots; the fractions of a tick that the
\* third and later dots of the short types would add are left out
getDurationTicks(type, dots) ==
  LET baseTicks == DURATION_DEFINITIONS(type)
  IN baseTicks
       + (IF dots >= 1 THEN baseTicks \div 2 ELSE 0)
       + (IF dots >= 2 THEN baseTicks \div 4 ELSE 0)

----------------------------------------------------------------------------
(* The parsed scores the pipeline is run on.  A note is the record that    *)
(* parseNote builds; the analyzer's fields are present from the start      *)
(* with the value None (undefined in the source).                          *)

Pitch(step, octave) == [step |-> step, octave |-> octave, alter |-> 0]

\* duration.tuplet of a note outside a tuplet (null in the source)
NoTuplet == [actual |-> 0, normal |-> 0]
Triplet == [actual |-> 3, normal |-> 2]

Dur(type, dots, ticks, tuplet) ==
  [type |-> type, dots |-> dots, ticks |-> ticks, tuplet |-> tuplet]

\* a note as parseNote returns it (isLocked false, no voicePart)
ParsedNote(pos, dur, pitch, staff, voice, tied, emb) ==
  [id |-> 0, pitch |-> pitch, duration |-> dur, startBeat |-> pos,
   voice |-> voice, staff |-> staff,
   tiedTo |-> IF tied THEN "pending" ELSE None,
   embellishment |-> emb, isLocked |-> FALSE, lockReason |-> None,
   voicePart |-> None, hadEmbellishment |-> None]

\* a rest as parseMeasures builds it
ParsedRest(id, pos, dur, staff, voice) ==
  [id |-> id, duration |-> dur, startBeat |-> pos, voice |-> voice, staff |-> staff]

\* The notes a measure under test is drawn from, in document order.
NotePool == <<
  \* a grace note before beat 1 of the upper staff (zero duration)
  ParsedNote(Beat(1), Dur("eighth", 0, 0, NoTuplet), Pitch("D", 5), 1, 1, FALSE, "grace_note"),
  \* upper staff, beat 1: a half note and a quarter note below it
  ParsedNote(Beat(1), Dur("half", 0, 2048, NoTuplet), Pitch("C", 5), 1, 1, FALSE, None),
  ParsedNote(Beat(1), Dur("quarter", 0, 1024, NoTuplet), Pitch("E", 4), 1, 1, FALSE, None),
  \* a sixteenth on the second quarter of beat 1
  ParsedNote(Beat(1) + BeatUnit \div 4, Dur("sixteenth", 0, 256, NoTuplet), Pitch("A", 4), 1, 1, FALSE, None),
  \* the second eighth of a triplet on beat 1
  ParsedNote(Beat(1) + BeatUnit \div 3, Dur("eighth", 0, 341, Triplet), Pitch("B", 4), 1, 1, FALSE, None),
  \* an off-beat quarter at beat 2.5
  ParsedNote(Beat(2) + BeatUnit \div 2, Dur("quarter", 0, 1024, NoTuplet), Pitch("G", 4), 1, 1, FALSE, None),
  \* a quarter on beat 3
  ParsedNote(Beat(3), Dur("quarter", 0, 1024, NoTuplet), Pitch("E", 4), 1, 1, FALSE, None),
  \* a tied sixteenth at beat 3.5
  ParsedNote(Beat(3) + BeatUnit \div 2, Dur("sixteenth", 0, 256, NoTuplet), Pitch("F", 4), 1, 1, TRUE, None),
  \* a quarter on beat 4 (past the end of a 3/4 measure)
  ParsedNote(Beat(4), Dur("quarter", 0, 1024, NoTuplet), Pitch("D", 4), 1, 1, FALSE, None),
  \* a second voice that a backup longer than the elapsed time put before beat 1
  ParsedNote(BeatUnit \div 2, Dur("quarter", 0, 1024, NoTuplet), Pitch("G", 4), 1, 2, FALSE, None),
  \* lower staff, beat 1: a half note and a quarter note above it
  ParsedNote(Beat(1), Dur("half", 0, 2048, NoTuplet), Pitch("C", 3), 2, 2, FALSE, None),
  ParsedNote(Beat(1), Dur("quarter", 0, 1024, NoTuplet), Pitch("G", 3), 2, 1, FALSE, None),
  \* lower staff, a dotted quarter on beat 2 (parseDuration adds the dot to
  \* the 1536 ticks of its <duration>)
  ParsedNote(Beat(2), Dur("quarter", 1, 2304, NoTuplet), Pitch("E", 3), 2, 2, FALSE, None)
>>

\* title, composer, time and key signature as parseMetadata returns them
Metadatas == {
  [title |-> "Sonata", composer |-> "Mozart", tempo |-> 120,
   timeSignature |-> [beats |-> 4, beatType |-> 4, type |-> "simple"],
   keySignature |-> [fifths |-> 0, mode |-> "major"]],
  [title |-> "Untitled", composer |-> "Unknown", tempo |-> 96,
   timeSignature |-> [beats |-> 3, beatType |-> 4, type |-> "simple"],
   keySignature |-> [fifths |-> -1, mode |-> "minor"]]
}

\* the notes of the pool at the indices of S, in document order, with the
\* ids generateNoteId hands out after firstId
RECURSIVE PickNotes(_, _, _)
PickNotes(S, from, nextId) ==
  IF from > Len(NotePool) THEN << >>
  ELSE IF from \in S
       THEN <<[NotePool[from] EXCEPT !.id = nextId]>> \o PickNotes(S, from + 1, nextId + 1)
       ELSE PickNotes(S, from + 1, nextId)

\* A complete measure that precedes the measure under test: two notes that
\* fill the upper staff, a half note on the lower staff and a sixteenth rest.
LeadMeasure(ts) ==
  LET second == IF ts.beats = 4 THEN Dur("half", 0, 2048, NoTuplet)
                ELSE Dur("quarter", 0, 1024, NoTuplet)
  IN [number |-> 1,
      notes |-> <<[ParsedNote(Beat(1), Dur("half", 0, 2048, NoTuplet), Pitch("E", 5), 1, 1, FALSE, None)
                     EXCEPT !.id = 1],
                  [ParsedNote(Beat(3), second, Pitch("F", 5), 1, 1, FALSE, None) EXCEPT !.id = 2],
                  [ParsedNote(Beat(1), Dur("half", 0, 2048, NoTuplet), Pitch("C", 2), 2, 1, FALSE, None)
                     EXCEPT !.id = 3]>>,
      rests |-> <<ParsedRest(4, Beat(3), Dur("sixteenth", 0, 256, NoTuplet), 2, 1)>>]

\* The parsed score: the measure under test alone, or after the lead measure.
ParsedScoreOf(md, S, withLead) ==
  [metadata |-> md,
   measures |-> IF withLead
                THEN <<LeadMeasure(md.timeSignature),
                       [number |-> 2, notes |-> PickNotes(S, 1, 5), rests |-> << >>]>>
                ELSE <<[number |-> 1, notes |-> PickNotes(S, 1, 1), rests |-> << >>]>>]

ParsedScores ==
  {ParsedScoreOf(md, S, withLead) :
     md \in Metadatas,
     S \in {T \in SUBSET (1..Len(NotePool)) : Cardinality(T) <= MaxNotes},
     withLead \in BOOLEAN}

----------------------------------------------------------------------------
(* Analyzer: src/modules/analyzer.js *)

\* classifyVoicePart of the AI module: the pitch range rule
classifyVoicePart(note) ==
  IF note.staff = 1
  THEN (IF pitchToMidi(note.pitch) >= 60 THEN "soprano" ELSE "alto")
  ELSE (IF pitchToMidi(note.pitch) >= 48 THEN "tenor" ELSE "bass")

\* local pitch maximum or minimum among its neighbours on the staff
isMelodicTurningPoint(notes, index) ==
  IF index = 1 \/ index = Len(notes) THEN FALSE
  ELSE LET prev == notes[index - 1]
           curr == notes[index]
           next == notes[index + 1]
           prevMidi == pitchToMidi(prev.pitch)
           currMidi == pitchToMidi(curr.pitch)
           nextMidi == pitchToMidi(next.pitch)
       IN IF prev.embellishment # None \/ curr.embellishment # None
               \/ next.embellishment # None
          THEN FALSE
          ELSE (currMidi > prevMidi /\ currMidi > nextMidi)
                 \/ (currMidi < prevMidi /\ currMidi < nextMidi)

\* the lock reason identifyLockedNotes gives the note at noteIdx of the
\* measure, None when no rule applies (first matching rule wins)
lockReasonOf(notes, noteIdx, ts) ==
  LET note == notes[noteIdx]
      startBeat == note.startBeat
      endBeat == startBeat + TicksToPos(note.duration.ticks)
      strongBeats == getStrongBeats(ts)
      startsOnWeakBeat == ~isStrongBeat(startBeat, ts)
      extendsToStrongBeat ==
        \E i \in 1..Len(strongBeats) :
          startBeat < Beat(strongBeats[i]) /\ endBeat >= Beat(strongBeats[i])
      beatFraction == JsRem(startBeat, BeatUnit)
      tp == note.duration.tuplet
      \* startBeat % (1 / (actual / normal)) < 0.01
      isFirstOfTriplet ==
        tp # NoTuplet
          /\ Abs(JsRem(startBeat * tp.actual, BeatUnit * tp.normal)) * 100
               < BeatUnit * tp.actual
      sameStaffNotes == SelectSeq(notes, LAMBDA n :
                          IF note.staff = 1 THEN n.staff = 1 ELSE n.staff = 2)
      staffNoteIdx == FindIndex(sameStaffNotes, LAMBDA n : n.id = note.id)
  IN IF note.embellishment # None THEN None
     ELSE IF startsOnWeakBeat /\ extendsToStrongBeat THEN "syncopation"
     ELSE IF note.duration.dots > 0 /\ note.duration.ticks >= 512 THEN "dotted_rhythm"
     ELSE IF note.tiedTo # None THEN "cross_beat_tie"
     ELSE IF 2 * beatFraction >= BeatUnit /\ beatFraction < BeatUnit
               /\ 2 * note.duration.ticks >= TicksPerBeat THEN "off_beat_start"
     ELSE IF isFirstOfTriplet THEN "triplet_head"
     ELSE IF staffNoteIdx >= 1 /\ isMelodicTurningPoint(sameStaffNotes, staffNoteIdx)
          THEN "melodic_turning_point"
     ELSE IF noteIdx = Len(notes) /\ note.duration.ticks >= 1024 THEN "phrase_ending"
     ELSE None

identifyLockedNotes(notes, ts) ==
  [i \in 1..Len(notes) |->
     LET r == lockReasonOf(notes, i, ts)
     IN [notes[i] EXCEPT !.isLocked = (r # None), !.lockReason = r]]

\* groupByBeat then the highest (lowest) note of each Math.floor(startBeat)
\* group; reduce keeps the earlier note on equal pitch.  The ids of the
\* notes getHighestVoice / getLowestVoice return.
extremeVoiceIds(notes, lowest) ==
  LET beatOf(n) == MathFloor(n.startBeat, BeatUnit)
      better(a, b) == IF lowest THEN pitchToMidi(a.pitch) < pitchToMidi(b.pitch)
                      ELSE pitchToMidi(a.pitch) > pitchToMidi(b.pitch)
      wins(i) == /\ \A j \in 1..(i - 1) :
                      beatOf(notes[j]) = beatOf(notes[i]) => better(notes[i], notes[j])
                 /\ \A j \in (i + 1)..Len(notes) :
                      beatOf(notes[j]) = beatOf(notes[i]) => ~better(notes[j], notes[i])
  IN {notes[i].id : i \in {k \in 1..Len(notes) : wins(k)}}

\* identifyVoices over the notes of all measures: the voicePart of a note
identifiedVoicePart(note, allNotes) ==
  LET upperStaff == SelectSeq(allNotes, LAMBDA n : n.staff = 1)
      lowerStaff == SelectSeq(allNotes, LAMBDA n : n.staff = 2)
  IN IF note.staff = 1
     THEN (IF note.id \in extremeVoiceIds(upperStaff, FALSE) THEN "soprano" ELSE "alto")
     ELSE IF note.staff = 2
     THEN (IF note.id \in extremeVoiceIds(lowerStaff, TRUE) THEN "bass" ELSE "tenor")
     ELSE note.voicePart

analyzeScore(score, scoreType) ==
  LET ts == score.metadata.timeSignature
      classified(m) ==
        MapSeq(LAMBDA n : [n EXCEPT !.voicePart =
                             IF scoreType = "grand-staff" THEN classifyVoicePart(n) ELSE None,
                           !.isLocked = FALSE, !.lockReason = None], m.notes)
      locked == MapSeq(LAMBDA m : [m EXCEPT !.notes = identifyLockedNotes(classified(m), ts)],
                       score.measures)
      allNotes == Flatten(MapSeq(LAMBDA m : m.notes, locked))
      voiced == MapSeq(LAMBDA m : [m EXCEPT !.notes =
                  MapSeq(LAMBDA n : [n EXCEPT !.voicePart = identifiedVoicePart(n, allNotes)],
                         m.notes)], locked)
  IN [metadata |-> score.metadata,
      measures |-> IF scoreType = "grand-staff" THEN voiced ELSE locked,
      strongBeats |-> getStrongBeats(ts),
      scoreType |-> scoreType]

----------------------------------------------------------------------------
(* Single-staff rules: src/rules/singleStaff.js *)

getDurationTypeFromTicks(ticks) ==
  IF ticks >= 4096 THEN "whole"
  ELSE IF ticks >= 2048 THEN "half"
  ELSE IF ticks >= 1024 THEN "quarter"
  ELSE IF ticks >= 512 THEN "eighth"
  ELSE IF ticks >= 256 THEN "sixteenth"
  ELSE "32nd"

\* notes.filter(n => !n.embellishment)
mainNotesOf(notes) == SelectSeq(notes, LAMBDA n : n.embellishment = None)

\* { type: getDurationTypeFromTicks(t), ticks: t, dots: 0 }
stretched(ticks) == Dur(getDurationTypeFromTicks(ticks), 0, ticks, NoTuplet)

\* applyLevel1 taking notes[0] without the sort by startBeat
applyLevel1Unsorted(measure, ts) ==
  LET notes == mainNotesOf(measure.notes)
      measureDuration == ts.beats * 1024
  IN IF Len(notes) = 0 THEN [measure EXCEPT !.notes = << >>]
     ELSE [measure EXCEPT
             !.notes = <<[notes[1] EXCEPT !.startBeat = Beat(1),
                                          !.duration = stretched(measureDuration)]>>,
             !.rests = << >>]

applyLevel1(measure, ts) ==
  LET notes == mainNotesOf(measure.notes)
      sortedNotes == SortByStart(notes)
      measureDuration == ts.beats * 1024
  IN IF Len(notes) = 0 THEN [measure EXCEPT !.notes = << >>]
     ELSE [measure EXCEPT
             !.notes = <<[sortedNotes[1] EXCEPT !.startBeat = Beat(1),
                                                !.duration = stretched(measureDuration)]>>,
             !.rests = << >>]

\* index in notes of the note findNoteAtBeatExcluding returns for the beat,
\* 0 when it returns nothing; tolerance is the width of the exact match in
\* BeatUnit (0.1 beat here, 0.25 beat in applyStrongBeatOnly)
findNoteAtBeatExcludingTol(notes, beat, usedNotes, tolNum, tolDen) ==
  LET free(n) == n.id \notin usedNotes
      exact == FindIndex(notes, LAMBDA n :
                 free(n) /\ Abs(n.startBeat - Beat(beat)) * tolDen < tolNum * BeatUnit)
      covering == FindIndex(notes, LAMBDA n :
                    free(n) /\ n.startBeat <= Beat(beat)
                      /\ n.startBeat + TicksToPos(n.duration.ticks) > Beat(beat))
      dist(n) == Abs(n.startBeat - Beat(beat))
      near == {i \in 1..Len(notes) : free(notes[i]) /\ dist(notes[i]) < 2 * BeatUnit}
      \* the last note that lowered minDistance: the first of the nearest
      nearest == IF near = {} THEN 0
                 ELSE CHOOSE i \in near :
                        \A j \in near : dist(notes[i]) < dist(notes[j])
                                          \/ (dist(notes[i]) = dist(notes[j]) /\ i <= j)
  IN IF Len(notes) = 0 THEN 0
     ELSE IF exact # 0 THEN exact
     ELSE IF covering # 0 THEN covering
     ELSE nearest

findNoteAtBeatExcluding(notes, beat, usedNotes) ==
  findNoteAtBeatExcludingTol(notes, beat, usedNotes, 1, 10)

\* the note the strongBeats.forEach body pushes a given noteAtBeat as, with
\* the next strong beat always taken to be the end of the measure
strongBeatNoteToMeasureEnd(sortedNotes, ts, idx, k) ==
  LET strongBeat == getStrongBeats(ts)[idx]
      noteAtBeat == sortedNotes[k]
      durationTicks == (ts.beats + 1 - strongBeat) * 1024
      shouldKeepOriginalPosition ==
        idx = 1 /\ sortedNotes[1].startBeat < Beat(1) /\ k = 1
  IN [noteAtBeat EXCEPT
        !.startBeat = IF shouldKeepOriginalPosition THEN noteAtBeat.startBeat
                      ELSE Beat(strongBeat),
        !.duration = stretched(durationTicks)]

\* the note the strongBeats.forEach body pushes for strong beat number idx
\* (1-based) when noteAtBeat is sortedNotes[k]
strongBeatNote(sortedNotes, ts, idx, k) ==
  LET strongBeats == getStrongBeats(ts)
      strongBeat == strongBeats[idx]
      noteAtBeat == sortedNotes[k]
      firstNote == sortedNotes[1]
      isFirstNoteAnacrusis == firstNote.startBeat < Beat(1)
      nextStrongBeat == IF idx + 1 <= Len(strongBeats) THEN strongBeats[idx + 1]
                        ELSE ts.beats + 1
      durationTicks == (nextStrongBeat - strongBeat) * 1024
      shouldKeepOriginalPosition == idx = 1 /\ isFirstNoteAnacrusis /\ k = 1
  IN [noteAtBeat EXCEPT
        !.startBeat = IF shouldKeepOriginalPosition THEN noteAtBeat.startBeat
                      ELSE Beat(strongBeat),
        !.duration = stretched(durationTicks)]

\* the strongBeats.forEach loop shared by applyLevel2 and
\* applyStrongBeatOnly, from strong beat number idx on (1-based)
RECURSIVE strongBeatLoop(_, _, _, _, _, _)
strongBeatLoop(sortedNotes, ts, idx, usedNotes, tolNum, tolDen) ==
  LET strongBeats == getStrongBeats(ts)
      k == findNoteAtBeatExcludingTol(sortedNotes, strongBeats[idx], usedNotes,
                                      tolNum, tolDen)
  IN IF idx > Len(strongBeats) THEN << >>
     ELSE IF k = 0
          THEN strongBeatLoop(sortedNotes, ts, idx + 1, usedNotes, tolNum, tolDen)
          ELSE <<strongBeatNote(sortedNotes, ts, idx, k)>>
               \o strongBeatLoop(sortedNotes, ts, idx + 1,
                                 usedNotes \cup {sortedNotes[k].id}, tolNum, tolDen)

applyLevel2(measure, ts) ==
  LET notes == mainNotesOf(measure.notes)
  IN IF Len(notes) = 0 THEN [measure EXCEPT !.notes = << >>]
     ELSE [measure EXCEPT
             !.notes = strongBeatLoop(SortByStart(notes), ts, 1, {}, 1, 10),
             !.rests = << >>]

\* index in notes of the note findNoteAtBeat returns (notes is not empty)
findNoteAtBeat(notes, beat) ==
  LET exact == FindIndex(notes, LAMBDA n : Abs(n.startBeat - Beat(beat)) * 10 < BeatUnit)
      covering == FindIndex(notes, LAMBDA n :
                    n.startBeat <= Beat(beat)
                      /\ n.startBeat + TicksToPos(n.duration.ticks) > Beat(beat))
      dist(n) == Abs(n.startBeat - Beat(beat))
      nearest == CHOOSE i \in 1..Len(notes) :
                   \A j \in 1..Len(notes) :
                     dist(notes[i]) < dist(notes[j])
                       \/ (dist(notes[i]) = dist(notes[j]) /\ i <= j)
  IN IF Len(notes) = 0 THEN 0
     ELSE IF exact # 0 THEN exact
     ELSE IF covering # 0 THEN covering
     ELSE nearest

applyLevel3(measure, ts) ==
  LET notes == mainNotesOf(measure.notes)
  IN IF Len(notes) = 0 THEN [measure EXCEPT !.notes = << >>]
     ELSE [measure EXCEPT
             !.notes = [beat \in 1..ts.beats |->
                          [notes[findNoteAtBeat(notes, beat)] EXCEPT
                             !.startBeat = Beat(beat),
                             !.duration = Dur("quarter", 0, 1024, NoTuplet)]],
             !.rests = << >>]

\* the slot of a short unlocked note taken at the nearest grid position
level4SlotNearest(note) ==
  IF note.duration.tuplet # NoTuplet
  THEN LET actual == note.duration.tuplet.actual
       IN [kind |-> "triplet",
           pos |-> MathRound(note.startBeat * actual, BeatUnit) * (BeatUnit \div actual)]
  ELSE [kind |-> "eighth",
        pos |-> MathRound(note.startBeat * 2, BeatUnit) * (BeatUnit \div 2)]

\* the slot of processedPositions a short unlocked note falls in, and the
\* startBeat it is moved to
level4Slot(note) ==
  IF note.duration.tuplet # NoTuplet
  THEN LET actual == note.duration.tuplet.actual
       \* Math.floor(startBeat / (1 / actual)) * (1 / actual)
       IN [kind |-> "triplet",
           pos |-> MathFloor(note.startBeat * actual, BeatUnit) * (BeatUnit \div actual)]
  ELSE [kind |-> "eighth",
        pos |-> MathFloor(note.startBeat * 2, BeatUnit) * (BeatUnit \div 2)]

\* the test without the locked notes
level4KeepsLongOnly(note) == note.duration.ticks >= 512

level4Keeps(note) == note.isLocked \/ note.duration.ticks >= 512

\* the mainNotes.forEach loop of applyLevel4 from index i on
RECURSIVE level4Loop(_, _, _)
level4Loop(mainNotes, i, processedPositions) ==
  LET note == mainNotes[i]
      slot == level4Slot(note)
      tp == note.duration.tuplet
      snapped == IF tp # NoTuplet
                 THEN [note EXCEPT !.startBeat = slot.pos,
                         !.duration = Dur("eighth", 0, MathRound(512 * tp.normal, tp.actual), tp)]
                 ELSE [note EXCEPT !.startBeat = slot.pos,
                         !.duration = Dur("eighth", 0, 512, NoTuplet)]
  IN IF i > Len(mainNotes) THEN << >>
     ELSE IF level4Keeps(note)
          THEN <<note>> \o level4Loop(mainNotes, i + 1, processedPositions)
     ELSE IF slot \in processedPositions
          THEN level4Loop(mainNotes, i + 1, processedPositions)
     ELSE <<snapped>> \o level4Loop(mainNotes, i + 1, processedPositions \cup {slot})

applyLevel4(measure, ts) ==
  LET sortedNotes == SortByStart(measure.notes)
      mainNotes == mainNotesOf(sortedNotes)
      simplifiedRests ==
        MapSeq(LAMBDA rest :
                 IF rest.duration.ticks < 512
                 THEN [rest EXCEPT !.duration = Dur("eighth", 0, 512, NoTuplet)]
                 ELSE rest, measure.rests)
  IN [measure EXCEPT !.notes = level4Loop(mainNotes, 1, {}),
                     !.rests = simplifiedRests]

\* the notes of the measure after the embellishments.forEach loop of
\* applyLevel5: the main note nearest to an embellishment is marked with it
\* (the last embellishment that picks a note wins)
\* The same loop writing the embellishment field of the main note:
level5MarkedAsEmbellishment(notes) ==
  LET mainIdx == {i \in 1..Len(notes) : notes[i].embellishment = None}
      embIdx == {i \in 1..Len(notes) : notes[i].embellishment # None}
      dist(i, e) == Abs(notes[i].startBeat - notes[e].startBeat)
      nearestMain(e) == CHOOSE i \in mainIdx :
                          \A j \in mainIdx : dist(i, e) < dist(j, e)
                                               \/ (dist(i, e) = dist(j, e) /\ i <= j)
      markers(i) == {e \in embIdx : nearestMain(e) = i}
      lastMarker(i) == CHOOSE e \in markers(i) : \A f \in markers(i) : f <= e
  IN [i \in 1..Len(notes) |->
        IF i \in mainIdx /\ markers(i) # {}
        THEN [notes[i] EXCEPT !.embellishment = notes[lastMarker(i)].embellishment]
        ELSE notes[i]]

level5Marked(notes) ==
  LET mainIdx == {i \in 1..Len(notes) : notes[i].embellishment = None}
      embIdx == {i \in 1..Len(notes) : notes[i].embellishment # None}
      dist(i, e) == Abs(notes[i].startBeat - notes[e].startBeat)
      nearestMain(e) == CHOOSE i \in mainIdx :
                          \A j \in mainIdx : dist(i, e) < dist(j, e)
                                               \/ (dist(i, e) = dist(j, e) /\ i <= j)
      markers(i) == {e \in embIdx : nearestMain(e) = i}
      lastMarker(i) == CHOOSE e \in markers(i) : \A f \in markers(i) : f <= e
  IN [i \in 1..Len(notes) |->
        IF i \in mainIdx /\ markers(i) # {}
        THEN [notes[i] EXCEPT !.hadEmbellishment = notes[lastMarker(i)].embellishment]
        ELSE notes[i]]

\* mainNotes is filtered before the marking loop runs and holds the marked
\* note objects afterwards
applyLevel5(measure, ts) ==
  LET marked == level5Marked(measure.notes)
      main == {i \in 1..Len(measure.notes) : measure.notes[i].embellishment = None}
      nth(k) == CHOOSE i \in main : Cardinality({j \in main : j < i}) = k - 1
  IN [measure EXCEPT !.notes = [k \in 1..Cardinality(main) |-> marked[nth(k)]]]

applySingleStaffSimplification(measure, level, ts) ==
  CASE level = 1 -> applyLevel1(measure, ts)
    [] level = 2 -> applyLevel2(measure, ts)
    [] level = 3 -> applyLevel3(measure, ts)
    [] level = 4 -> applyLevel4(measure, ts)
    [] level = 5 -> applyLevel5(measure, ts)
    [] OTHER -> measure

----------------------------------------------------------------------------
(* Grand-staff rules: src/rules/grandStaff.js *)

\* a key that files the notes of a whole beat together
beatGroupByBeat(note) == MathFloor(note.startBeat, BeatUnit)

\* the key groupNotesByBeat files a note under: Math.round(startBeat * 4)
beatGroupOf(note) == MathRound(note.startBeat * 4, BeatUnit)

\* extractVoicesByPitch: per beat group in ascending order, the notes sorted
\* by pitch (descending, or ascending when bassFirst); the first of each
\* group is the primary line, the others the secondary line
extractVoicesByPitch(notes, bassFirst) ==
  LET mainNotes == mainNotesOf(notes)
      pitchKey(n) == IF bassFirst THEN pitchToMidi(n.pitch) ELSE 0 - pitchToMidi(n.pitch)
      \* groups in beat order, each group sorted by pitch, insertion order kept
      byPitch == SortByKey(mainNotes, pitchKey)
      ordered == SortByKey(byPitch, beatGroupOf)
      isPrimary(i) == i = 1 \/ beatGroupOf(ordered[i - 1]) # beatGroupOf(ordered[i])
      idx == 1..Len(ordered)
      pick(P(_)) == LET sel == {i \in idx : P(i)}
                        nth(k) == CHOOSE i \in sel : Cardinality({j \in sel : j < i}) = k - 1
                    IN [k \in 1..Cardinality(sel) |-> ordered[nth(k)]]
  IN [primaryLine |-> pick(isPrimary),
      secondaryLine |-> pick(LAMBDA i : ~isPrimary(i))]

withVoicePart(notes, part) == MapSeq(LAMBDA n : [n EXCEPT !.voicePart = part], notes)

separateVoices(upperStaff, lowerStaff) ==
  LET upperLines == extractVoicesByPitch(upperStaff, FALSE)
      lowerLines == extractVoicesByPitch(lowerStaff, TRUE)
  IN [soprano |-> withVoicePart(upperLines.primaryLine, "soprano"),
      alto |-> withVoicePart(upperLines.secondaryLine, "alto"),
      tenor |-> withVoicePart(lowerLines.secondaryLine, "tenor"),
      bass |-> withVoicePart(lowerLines.primaryLine, "bass")]

applyStrongBeatOnly(notes, ts) ==
  LET mainNotes == mainNotesOf(notes)
  IN IF Len(mainNotes) = 0 THEN << >>
     ELSE strongBeatLoop(SortByStart(mainNotes), ts, 1, {}, 1, 4)

\* the re-tagging without the voice number
taggedKeepingVoice(notes, staff, part, voice) ==
  MapSeq(LAMBDA n : [n EXCEPT !.staff = staff, !.voicePart = part], notes)

\* ...notes.map(n => ({ ...n, staff, voicePart, voice }))
tagged(notes, staff, part, voice) ==
  MapSeq(LAMBDA n : [n EXCEPT !.staff = staff, !.voicePart = part, !.voice = voice], notes)

\* a primary voice at its own single-staff level
simplifiedPrimary(measure, voiceNotes, level, ts) ==
  IF Len(voiceNotes) > 0
  THEN applySingleStaffSimplification([measure EXCEPT !.notes = voiceNotes], level, ts).notes
  ELSE << >>

\* a secondary voice: not written, on strong beats only, or at Level 5
simplifiedSecondary(measure, voiceNotes, mode, ts) ==
  IF mode = "absent" \/ Len(voiceNotes) = 0 THEN << >>
  ELSE IF mode = "strong" THEN applyStrongBeatOnly(voiceNotes, ts)
  ELSE applySingleStaffSimplification([measure EXCEPT !.notes = voiceNotes], 5, ts).notes

\* what applyGrandStaffLevel<level> does with the alto and with the tenor
\* the alto written on strong beats from Level 1 on
altoModeFromLevel1(level) ==
  CASE level \in {1, 2, 4} -> "strong" [] level = 5 -> "level5" [] OTHER -> "absent"

altoMode(level) == CASE level \in {2, 4} -> "strong" [] level = 5 -> "level5" [] OTHER -> "absent"
tenorMode(level) == CASE level \in {3, 4} -> "strong" [] level = 5 -> "level5" [] OTHER -> "absent"

\* config.sopranoLevel || <default> and config.bassLevel || <default> of
\* applyGrandStaffLevel1..5
levelDefaultSoprano(level) == CASE level \in {3, 5} -> 5 [] OTHER -> 4
levelDefaultBass(level) == CASE level = 1 -> 1 [] level = 5 -> 5 [] OTHER -> 2

applyGrandStaffLevel(measure, level, ts, config) ==
  LET sopranoLevel == IF config.sopranoLevel # 0 THEN config.sopranoLevel
                      ELSE levelDefaultSoprano(level)
      bassLevel == IF config.bassLevel # 0 THEN config.bassLevel
                   ELSE levelDefaultBass(level)
      upperStaff == SelectSeq(measure.notes, LAMBDA n : n.staff = 1)
      lowerStaff == SelectSeq(measure.notes, LAMBDA n : n.staff = 2)
      voices == separateVoices(upperStaff, lowerStaff)
      resultNotes ==
        tagged(simplifiedPrimary(measure, voices.soprano, sopranoLevel, ts), 1, "soprano", 1)
        \o tagged(simplifiedSecondary(measure, voices.alto, altoMode(level), ts), 1, "alto", 2)
        \o tagged(simplifiedSecondary(measure, voices.tenor, tenorMode(level), ts), 2, "tenor", 1)
        \o tagged(simplifiedPrimary(measure, voices.bass, bassLevel, ts), 2, "bass", 2)
  IN [measure EXCEPT !.notes = resultNotes, !.rests = << >>]

applyGrandStaffSimplification(measure, level, ts, config) ==
  IF level \in 1..5 THEN applyGrandStaffLevel(measure, level, ts, config)
  ELSE measure

----------------------------------------------------------------------------
(* Simplification engine: src/modules/simplifier.js *)

\* the longest voice ends before the end of the measure
isAnacrusisBelowFullMeasure(measure, ts) ==
  LET notes == measure.notes
      endBeat(n) == n.startBeat + TicksToPos(n.duration.ticks)
      voiceKeys == {<<notes[i].staff, notes[i].voice>> : i \in 1..Len(notes)}
      \* maxEndBeat starts at 0 and only grows
      maxEndBeat(key) ==
        LET ends == {endBeat(notes[i]) : i \in {j \in 1..Len(notes) :
                                                   <<notes[j].staff, notes[j].voice>> = key}}
            top == CHOOSE e \in ends : \A f \in ends : f <= e
        IN IF top > 0 THEN top ELSE 0
      actualBeats(key) == maxEndBeat(key) - Beat(1)
      \* maxActualBeats starts at 0 and only grows
      maxActualBeats ==
        LET all == {actualBeats(key) : key \in voiceKeys} \cup {0}
        IN CHOOSE a \in all : \A b \in all : b <= a
  IN IF Len(notes) = 0 THEN FALSE
     ELSE maxActualBeats < Beat(ts.beats)

\* analyzer.js isAnacrusis: the longest voice ends before 90% of the measure
isAnacrusis(measure, ts) ==
  LET notes == measure.notes
      endBeat(n) == n.startBeat + TicksToPos(n.duration.ticks)
      voiceKeys == {<<notes[i].staff, notes[i].voice>> : i \in 1..Len(notes)}
      \* maxEndBeat starts at 0 and only grows
      maxEndBeat(key) ==
        LET ends == {endBeat(notes[i]) : i \in {j \in 1..Len(notes) :
                                                   <<notes[j].staff, notes[j].voice>> = key}}
            top == CHOOSE e \in ends : \A f \in ends : f <= e
        IN IF top > 0 THEN top ELSE 0
      actualBeats(key) == maxEndBeat(key) - Beat(1)
      \* maxActualBeats starts at 0 and only grows
      maxActualBeats ==
        LET all == {actualBeats(key) : key \in voiceKeys} \cup {0}
        IN CHOOSE a \in all : \A b \in all : b <= a
  IN IF Len(notes) = 0 THEN FALSE
     ELSE 10 * maxActualBeats < 9 * Beat(ts.beats)

\* the pickup measure returned with its embellishments
preserveAnacrusisKeepAll(measure) ==
  measure

preserveAnacrusis(measure) ==
  [measure EXCEPT !.notes = mainNotesOf(measure.notes)]

getDefaultSopranoLevel(mainLevel) ==
  CASE mainLevel \in {3, 5} -> 5 [] OTHER -> 4

getDefaultBassLevel(mainLevel) ==
  CASE mainLevel = 1 -> 1 [] mainLevel = 5 -> 5 [] OTHER -> 2

\* does simplifyScore keep measure number index (1-based) as a pickup measure
keptAsAnacrusis(score, index) ==
  index = 1 /\ Len(score.measures) > 0
    /\ isAnacrusis(score.measures[1], score.metadata.timeSignature)

simplifyMeasure(score, index, config) ==
  LET measure == score.measures[index]
      ts == score.metadata.timeSignature
  IN IF keptAsAnacrusis(score, index) THEN preserveAnacrusis(measure)
     ELSE IF score.scoreType = "single-staff"
     THEN applySingleStaffSimplification(measure, config.mainLevel, ts)
     ELSE applyGrandStaffSimplification(measure, config.mainLevel, ts,
            [sopranoLevel |-> IF config.sopranoLevel # 0 THEN config.sopranoLevel
                              ELSE getDefaultSopranoLevel(config.mainLevel),
             bassLevel |-> IF config.bassLevel # 0 THEN config.bassLevel
                           ELSE getDefaultBassLevel(config.mainLevel)])

\* simplifyScore returning the score in C major
simplifyScoreInCMajor(score, config) ==
  [metadata |-> [score.metadata EXCEPT !.keySignature = [fifths |-> 0, mode |-> "major"]],
   measures |-> [index \in 1..Len(score.measures) |-> simplifyMeasure(score, index, config)],
   simplificationLevel |-> config.mainLevel,
   scoreType |-> score.scoreType]

simplifyScore(score, config) ==
  [metadata |-> score.metadata,
   measures |-> [index \in 1..Len(score.measures) |-> simplifyMeasure(score, index, config)],
   simplificationLevel |-> config.mainLevel,
   scoreType |-> score.scoreType]

\* The score passed to simplifyScore as the call leaves it: single-staff
\* Level 5 writes hadEmbellishment into the notes of its input measure.
inputAfterSimplify(score, config) ==
  [score EXCEPT !.measures =
     [index \in 1..Len(score.measures) |->
        IF ~keptAsAnacrusis(score, index) /\ score.scoreType = "single-staff"
             /\ config.mainLevel = 5
        THEN [score.measures[index] EXCEPT !.notes = level5Marked(score.measures[index].notes)]
        ELSE score.measures[index]]]

----------------------------------------------------------------------------
(* Exporter: src/modules/exporter.js.  The document is kept as the         *)
(* sequence of <note> and <backup> elements of each measure.               *)

NoPitch == [step |-> "", octave |-> 0, alter |-> 0]

\* <note> with a <rest/>
RestEvent(duration, voice, staff, type) ==
  [kind |-> "rest", duration |-> duration, voice |-> voice, staff |-> staff,
   chord |-> FALSE, type |-> type, pitch |-> NoPitch]

\* <backup><duration>d</duration></backup>
BackupEvent(duration) ==
  [kind |-> "backup", duration |-> duration, voice |-> 0, staff |-> 0,
   chord |-> FALSE, type |-> "", pitch |-> NoPitch]

\* a measure rest written as a whole rest whatever the time signature
generateWholeRest(voice, staff, measureDuration) ==
  <<RestEvent(divisions * 4, voice, staff, "measure")>>

generateFullMeasureRest(voice, staff, measureDuration) ==
  <<RestEvent(measureDuration, voice, staff, "measure")>>

durationToType(type) ==
  CASE type = "sixteenth" -> "16th"
    [] type \in {"whole", "half", "quarter", "eighth", "32nd"} -> type
    [] OTHER -> "quarter"

\* Math.round((durationTicks / 1024) * divisions), durationTicks = ticks || 1024
xmlDurationOf(note) ==
  LET durationTicks == IF note.duration.ticks = 0 THEN 1024 ELSE note.duration.ticks
  IN MathRound(durationTicks * divisions, 1024)

generateNoteXML(note, voice, staff, isChord) ==
  [kind |-> "note", duration |-> xmlDurationOf(note), voice |-> voice, staff |-> staff,
   chord |-> isChord, type |-> durationToType(note.duration.type), pitch |-> note.pitch]

\* the rest values in divisions, largest first
restValues ==
  <<[duration |-> divisions * 4, type |-> "whole"],
    [duration |-> divisions * 2, type |-> "half"],
    [duration |-> divisions, type |-> "quarter"],
    [duration |-> divisions \div 2, type |-> "eighth"],
    [duration |-> divisions \div 4, type |-> "16th"],
    [duration |-> divisions \div 8, type |-> "32nd"]>>

\* while (remaining > 0.5): the largest rest value <= remaining + 0.5, and
\* stop when none fits
RECURSIVE generateRestsForDuration(_, _, _)
generateRestsForDuration(remaining, voice, staff) ==
  LET k == FindIndex(restValues, LAMBDA rv : rv.duration <= remaining)
  IN IF remaining < 1 \/ k = 0 THEN << >>
     ELSE <<RestEvent(restValues[k].duration, voice, staff, restValues[k].type)>>
          \o generateRestsForDuration(remaining - restValues[k].duration, voice, staff)

\* Math.round((startBeat - 1) * divisions)
positionOf(note) == MathRound((note.startBeat - Beat(1)) * divisions, BeatUnit)

\* groupNotesByPosition: the index of the note that opened the group note i
\* was put in (a note joins the current group when it lies within
\* divisions / 8 of the position of the group's first note)
RECURSIVE groupHead(_, _)
groupHead(notes, i) ==
  IF i = 1 THEN 1
  ELSE LET h == groupHead(notes, i - 1)
       IN IF Abs(positionOf(notes[i]) - positionOf(notes[h])) * 8 > divisions
          THEN i ELSE h

\* the noteGroups.forEach loop of generateVoiceXMLAligned from note i on,
\* with the cursor at currentPosition
RECURSIVE voiceLoop(_, _, _, _, _, _)
voiceLoop(sortedNotes, i, currentPosition, voice, staff, measureDuration) ==
  LET note == sortedNotes[i]
      isHead == groupHead(sortedNotes, i) = i
      notePosition == positionOf(note)
      gap == notePosition - currentPosition
      noteDuration == xmlDurationOf(note)
  IN IF i > Len(sortedNotes)
     THEN (IF currentPosition < measureDuration
           THEN generateRestsForDuration(measureDuration - currentPosition, voice, staff)
           ELSE << >>)
     ELSE IF isHead
     THEN (IF gap > 0 THEN generateRestsForDuration(gap, voice, staff) ELSE << >>)
          \o <<generateNoteXML(note, voice, staff, FALSE)>>
          \o voiceLoop(sortedNotes, i + 1, notePosition + noteDuration,
                       voice, staff, measureDuration)
     ELSE <<generateNoteXML(note, voice, staff, TRUE)>>
          \o voiceLoop(sortedNotes, i + 1, currentPosition, voice, staff, measureDuration)

generateVoiceXMLAligned(notes, voice, staff, measureDuration) ==
  IF Len(notes) = 0 THEN generateFullMeasureRest(voice, staff, measureDuration)
  ELSE voiceLoop(SortByStart(notes), 1, 0, voice, staff, measureDuration)

generateSingleStaffMeasureXML(notes, measureDuration) ==
  IF Len(notes) = 0 THEN generateFullMeasureRest(1, 1, measureDuration)
  ELSE generateVoiceXMLAligned(notes, 1, 1, measureDuration)

generateGrandStaffMeasureXML(notes, measureDuration) ==
  LET part(name, staff, voice) ==
        SelectSeq(notes, LAMBDA n :
          n.voicePart = name \/ (n.staff = staff /\ n.voice = voice /\ n.voicePart = None))
      soprano == part("soprano", 1, 1)
      alto == part("alto", 1, 2)
      tenor == part("tenor", 2, 1)
      bass == part("bass", 2, 2)
      upperNotes == IF Len(soprano) > 0 \/ Len(alto) > 0 THEN soprano \o alto
                    ELSE SelectSeq(notes, LAMBDA n : n.staff = 1)
      lowerNotes == IF Len(tenor) > 0 \/ Len(bass) > 0 THEN tenor \o bass
                    ELSE SelectSeq(notes, LAMBDA n : n.staff = 2)
      hasSoprano == Len(soprano) > 0 \/ (Len(upperNotes) > 0 /\ Len(alto) = 0)
      hasAlto == Len(alto) > 0
      hasTenor == Len(tenor) > 0
      hasBass == Len(bass) > 0 \/ (Len(lowerNotes) > 0 /\ Len(tenor) = 0)
      backup == <<BackupEvent(measureDuration)>>
      upper ==
        IF hasSoprano \/ hasAlto
        THEN (IF hasSoprano
              THEN generateVoiceXMLAligned(IF Len(soprano) > 0 THEN soprano ELSE upperNotes,
                                           1, 1, measureDuration)
              ELSE << >>)
             \o (IF hasAlto
                 THEN backup \o generateVoiceXMLAligned(alto, 2, 1, measureDuration)
                 ELSE << >>)
        ELSE generateFullMeasureRest(1, 1, measureDuration)
      lower ==
        IF hasTenor \/ hasBass
        THEN (IF hasTenor
              THEN generateVoiceXMLAligned(tenor, 3, 2, measureDuration)
                   \o (IF hasBass THEN backup ELSE << >>)
              ELSE << >>)
             \o (IF hasBass
                 THEN generateVoiceXMLAligned(IF Len(bass) > 0 THEN bass ELSE lowerNotes,
                                              4, 2, measureDuration)
                 ELSE << >>)
        ELSE generateFullMeasureRest(3, 2, measureDuration)
  IN upper \o backup \o lower

generateMeasureXML(measure, metadata, scoreType) ==
  LET measureDuration == metadata.timeSignature.beats * divisions
  IN [number |-> measure.number,
      events |-> IF scoreType = "grand-staff"
                 THEN generateGrandStaffMeasureXML(measure.notes, measureDuration)
                 ELSE generateSingleStaffMeasureXML(measure.notes, measureDuration)]

\* escapeXml on the titles and composers of the scores here: "&" becomes
\* "&amp;", and no other of its characters occurs in them
escapeXml(str) ==
  CASE str = "Q&A" -> "Q&amp;A"
    [] OTHER -> str

\* generateMusicXML with the time of day left in the encoding date
generateMusicXMLWithTime(score, now) ==
  [scoreType |-> score.scoreType,
   title |-> escapeXml(score.metadata.title),
   composer |-> escapeXml(score.metadata.composer),
   encodingDate |-> now,
   partName |-> IF score.scoreType = "grand-staff" THEN "Piano" ELSE "Part 1",
   measures |-> MapSeq(LAMBDA m : generateMeasureXML(m, score.metadata, score.scoreType),
                       score.measures)]

\* The document generateMusicXML builds when the clock reads now (in half
\* days since the epoch): new Date().toISOString().split('T')[0] is the
\* UTC day.
generateMusicXML(score, now) ==
  [scoreType |-> score.scoreType,
   title |-> escapeXml(score.metadata.title),
   composer |-> escapeXml(score.metadata.composer),
   encodingDate |-> now \div 2,
   partName |-> IF score.scoreType = "grand-staff" THEN "Piano" ELSE "Part 1",
   measures |-> MapSeq(LAMBDA m : generateMeasureXML(m, score.metadata, score.scoreType),
                       score.measures)]

----------------------------------------------------------------------------
(* The pipeline as the application runs it (App.vue): a parsed score is    *)
(* analyzed under the score type the user selects, simplified under the    *)
(* level configuration the user selects, and exported.                     *)

VARIABLES pc, parsed, analyzed, config, simplified, resimplified, exported,
          now, exportedAgain, notification,
          measureDivisions, children, walked, currentBeat, lastNonChordBeat, noteEvents,
          staves, isAIReady, voices, pending, ai, embeddings, embeddingCache, oracle, caller,
          restPc, totalDuration, restXml,
          chunkPc, measuresIn, chunks, processedChunks, merged

\* the state of parseMeasures inside one measure
parserVars == <<measureDivisions, children, walked, currentBeat, lastNonChordBeat, noteEvents>>

\* the state of one call of separateVoicesWithAI and of the module around it
aiVars == <<staves, isAIReady, voices, pending, ai, embeddings, embeddingCache, oracle, caller>>

\* the state of one call of generateRestsForDuration
restVars == <<restPc, totalDuration, restXml>>

\* the state of one run of the chunk processor
chunkVars == <<chunkPc, measuresIn, chunks, processedChunks, merged>>

toolVars == <<restVars, chunkVars>>

vars == <<pc, parsed, analyzed, config, simplified, resimplified, exported,
          now, exportedAgain, notification, parserVars, aiVars, toolVars>>

\* generateRestsForDuration is not called
RestIdle ==
  /\ restPc = "idle"
  /\ totalDuration = 0
  /\ restXml = << >>

\* the chunk processor is not used
ChunkIdle ==
  /\ chunkPc = "idle"
  /\ measuresIn = << >>
  /\ chunks = << >>
  /\ processedChunks = << >>
  /\ merged = << >>

VoiceNames == <<"soprano", "alto", "tenor", "bass">>

NoVoices == [v \in Range(VoiceNames) |-> << >>]

\* applyAISeparation has not been started
AiIdle == [stage |-> "idle", index |-> 0, waiting |-> FALSE, key |-> << >>]

\* separateVoicesWithAI has not returned
NotReturned ==
  [pc |-> "start", method |-> "rule-only", result |-> NoVoices, callsAtReturn |-> 0,
   timedOut |-> FALSE]

\* separateVoicesWithAI is not called
SeparationIdle ==
  /\ staves = [upper |-> << >>, lower |-> << >>]
  /\ isAIReady = FALSE
  /\ voices = NoVoices
  /\ pending = << >>
  /\ ai = AiIdle
  /\ embeddings = [v \in Range(VoiceNames) |-> FALSE]
  /\ embeddingCache = {}
  /\ oracle = [calls |-> 0, failed |-> FALSE]
  /\ caller = NotReturned

\* no measure is being parsed
ParserIdle ==
  /\ measureDivisions = 1
  /\ children = << >>
  /\ walked = << >>
  /\ currentBeat = 1
  /\ lastNonChordBeat = 1
  /\ noteEvents = << >>

ScoreTypes == {"single-staff", "grand-staff"}

\* 0 stands for a sub-level the caller leaves out
Configs ==
  {[mainLevel |-> l, sopranoLevel |-> s, bassLevel |-> b] :
     l \in 1..5, s \in 0..5, b \in 0..5}

\* the configurations the pipeline is run with: a single-staff score has no
\* sub-levels; a grand-staff score leaves both out or sets both to one level
RunConfigs(scoreType) ==
  IF scoreType = "single-staff"
  THEN {c \in Configs : c.sopranoLevel = 0 /\ c.bassLevel = 0}
  ELSE {c \in Configs : c.sopranoLevel = c.bassLevel}

NoConfig == [mainLevel |-> 0, sopranoLevel |-> 0, bassLevel |-> 0]
NoScore == [measures |-> << >>]

Init ==
  /\ pc = "parsed"
  /\ parsed \in ParsedScores
  /\ analyzed = NoScore
  /\ config = NoConfig
  /\ simplified = NoScore
  /\ resimplified = NoScore
  /\ exported = NoScore
  /\ now = 0
  /\ exportedAgain = NoScore
  /\ notification = "none"
  /\ ParserIdle
  /\ SeparationIdle
  /\ RestIdle
  /\ ChunkIdle

AnalyzeScore(scoreType) ==
  /\ pc = "parsed"
  /\ analyzed' = analyzeScore(parsed, scoreType)
  /\ pc' = "analyzed"
  /\ UNCHANGED <<parsed, config, simplified, resimplified, exported, now, exportedAgain, notification, parserVars, aiVars, toolVars>>

SimplifyScore(c) ==
  /\ pc = "analyzed"
  /\ c \in RunConfigs(analyzed.scoreType)
  /\ config' = c
  /\ simplified' = simplifyScore(analyzed, c)
  /\ analyzed' = inputAfterSimplify(analyzed, c)
  /\ pc' = "simplified"
  /\ UNCHANGED <<parsed, resimplified, exported, now, exportedAgain, notification, parserVars, aiVars, toolVars>>

\* The Level 5 re-run: simplifyScore applied to its own Level 5 output under
\* the same configuration.
SimplifyAgain ==
  /\ pc = "simplified"
  /\ config.mainLevel = 5
  /\ resimplified' = simplifyScore(simplified, config)
  /\ simplified' = inputAfterSimplify(simplified, config)
  /\ pc' = "resimplified"
  /\ UNCHANGED <<parsed, analyzed, config, exported, now, exportedAgain, notification, parserVars, aiVars, toolVars>>

ExportScore ==
  /\ pc = "simplified"
  /\ exported' = generateMusicXML(simplified, now)
  /\ pc' = "exported"
  /\ UNCHANGED <<parsed, analyzed, config, simplified, resimplified, now, exportedAgain, notification, parserVars, aiVars, toolVars>>

Next ==
  \/ \E scoreType \in ScoreTypes : AnalyzeScore(scoreType)
  \/ \E c \in Configs : SimplifyScore(c)
  \/ SimplifyAgain
  \/ ExportScore

Spec == Init /\ [][Next]_vars

----------------------------------------------------------------------------
(* The pipeline run on scores with a tied note that starts at beat 3.5,    *)
(* in every time signature of TIME_SIGNATURE_DEFINITIONS.                  *)

SupportedTimeSignatures ==
  {[beats |-> 2, beatType |-> 4, type |-> "simple"],
   [beats |-> 2, beatType |-> 2, type |-> "simple"],
   [beats |-> 3, beatType |-> 4, type |-> "simple"],
   [beats |-> 3, beatType |-> 8, type |-> "simple"],
   [beats |-> 4, beatType |-> 4, type |-> "simple"],
   [beats |-> 4, beatType |-> 2, type |-> "simple"],
   [beats |-> 5, beatType |-> 4, type |-> "irregular"],
   [beats |-> 6, beatType |-> 4, type |-> "compound"],
   [beats |-> 6, beatType |-> 8, type |-> "compound"],
   [beats |-> 7, beatType |-> 8, type |-> "irregular"],
   [beats |-> 9, beatType |-> 8, type |-> "compound"],
   [beats |-> 12, beatType |-> 8, type |-> "compound"]}

\* the durations parseDuration returns for a plain sixteenth, eighth,
\* quarter and half note and for a dotted eighth and a dotted quarter
TiedDurations ==
  {Dur("sixteenth", 0, 256, NoTuplet), Dur("eighth", 0, 512, NoTuplet),
   Dur("quarter", 0, 1024, NoTuplet), Dur("half", 0, 2048, NoTuplet),
   Dur("eighth", 1, 1152, NoTuplet), Dur("quarter", 1, 2304, NoTuplet)}

\* a note with <tie type="start"/> at beat 3.5 of the upper staff
TiedNote(dur) ==
  ParsedNote((7 * BeatUnit) \div 2, dur, Pitch("F", 4), 1, 1, TRUE, None)

\* the measure with the tied note, alone or after a quarter note on beat 1,
\* as the only measure or after the lead measure
TiedScoreOf(ts, dur, withFirst, withLead) ==
  LET firstId == IF withLead THEN 5 ELSE 1
      first == [ParsedNote(Beat(1), Dur("quarter", 0, 1024, NoTuplet), Pitch("C", 5),
                           1, 1, FALSE, None) EXCEPT !.id = firstId]
      notes == IF withFirst
               THEN <<first, [TiedNote(dur) EXCEPT !.id = firstId + 1]>>
               ELSE <<[TiedNote(dur) EXCEPT !.id = firstId]>>
      measure(number) == [number |-> number, notes |-> notes, rests |-> << >>]
  IN [metadata |-> [title |-> "Sonata", composer |-> "Mozart", tempo |-> 120,
                    timeSignature |-> ts,
                    keySignature |-> [fifths |-> 0, mode |-> "major"]],
      measures |-> IF withLead THEN <<LeadMeasure(ts), measure(2)>> ELSE <<measure(1)>>]

TiedScores ==
  {TiedScoreOf(ts, dur, withFirst, withLead) :
     ts \in SupportedTimeSignatures, dur \in TiedDurations,
     withFirst \in BOOLEAN, withLead \in BOOLEAN}

TieInit ==
  /\ pc = "parsed"
  /\ parsed \in TiedScores
  /\ analyzed = NoScore
  /\ config = NoConfig
  /\ simplified = NoScore
  /\ resimplified = NoScore
  /\ exported = NoScore
  /\ now = 0
  /\ exportedAgain = NoScore
  /\ notification = "none"
  /\ ParserIdle
  /\ SeparationIdle
  /\ RestIdle
  /\ ChunkIdle

TieSpec == TieInit /\ [][Next]_vars

----------------------------------------------------------------------------
(* The pipeline run on measures of short notes off the eighth-note grid.   *)

\* The notes the measure is drawn from, in document order: a grace note,
\* a sixteenth at beat 1.25, 32nd notes at beats 1.375 and 1.875, an eighth
\* at beat 2, a sixteenth at beat 2.25 and a tied sixteenth at beat 3.5,
\* rising in pitch.
SnapPool == <<
  ParsedNote(Beat(1), Dur("eighth", 0, 0, NoTuplet), Pitch("C", 4), 1, 1, FALSE, "grace_note"),
  ParsedNote((5 * BeatUnit) \div 4, Dur("sixteenth", 0, 256, NoTuplet), Pitch("D", 4), 1, 1, FALSE, None),
  ParsedNote((11 * BeatUnit) \div 8, Dur("32nd", 0, 128, NoTuplet), Pitch("E", 4), 1, 1, FALSE, None),
  ParsedNote((15 * BeatUnit) \div 8, Dur("32nd", 0, 128, NoTuplet), Pitch("F", 4), 1, 1, FALSE, None),
  ParsedNote(Beat(2), Dur("eighth", 0, 512, NoTuplet), Pitch("G", 4), 1, 1, FALSE, None),
  ParsedNote((9 * BeatUnit) \div 4, Dur("sixteenth", 0, 256, NoTuplet), Pitch("A", 4), 1, 1, FALSE, None),
  ParsedNote((14 * BeatUnit) \div 4, Dur("sixteenth", 0, 256, NoTuplet), Pitch("B", 4), 1, 1, TRUE, None)
>>

\* the notes of SnapPool at the indices of S with the ids after the four
\* of the lead measure
SnapNotes(S) ==
  LET picked == SelectSeq([i \in 1..Len(SnapPool) |-> i], LAMBDA i : i \in S)
  IN [k \in 1..Len(picked) |-> [SnapPool[picked[k]] EXCEPT !.id = 4 + k]]

\* the measure under test follows the lead measure
SnapScores ==
  {[metadata |-> md,
    measures |-> <<LeadMeasure(md.timeSignature),
                   [number |-> 2, notes |-> SnapNotes(S), rests |-> << >>]>>] :
     md \in Metadatas,
     S \in {T \in SUBSET (1..Len(SnapPool)) : Cardinality(T) <= MaxNotes}}

SnapInit ==
  /\ pc = "parsed"
  /\ parsed \in SnapScores
  /\ analyzed = NoScore
  /\ config = NoConfig
  /\ simplified = NoScore
  /\ resimplified = NoScore
  /\ exported = NoScore
  /\ now = 0
  /\ exportedAgain = NoScore
  /\ notification = "none"
  /\ ParserIdle
  /\ SeparationIdle
  /\ RestIdle
  /\ ChunkIdle

SnapSpec == SnapInit /\ [][Next]_vars

----------------------------------------------------------------------------
(* Downloading twice (handleDownload runs exportScore on every click)     *)
(* while the clock advances.                                               *)

\* the clock stops after this many half days
MaxNow == 3

ExportedTitles == {"Sonata", "Q&A"}

\* the scores the downloads are run on: the measure under test is empty,
\* holds the half note C5, or C5 and the half note C3 of the lower staff
ExportScores ==
  {[ParsedScoreOf(md, S, FALSE) EXCEPT !.metadata.title = title] :
     md \in Metadatas, S \in {{}, {2}, {2, 11}}, title \in ExportedTitles}

ExportInit ==
  /\ pc = "parsed"
  /\ parsed \in ExportScores
  /\ analyzed = NoScore
  /\ config = NoConfig
  /\ simplified = NoScore
  /\ resimplified = NoScore
  /\ exported = NoScore
  /\ now = 0
  /\ exportedAgain = NoScore
  /\ notification = "none"
  /\ ParserIdle
  /\ SeparationIdle
  /\ RestIdle
  /\ ChunkIdle

\* half a day passes
Tick ==
  /\ now < MaxNow
  /\ now' = now + 1
  /\ UNCHANGED <<pc, parsed, analyzed, config, simplified, resimplified, exported,
                 exportedAgain, notification, parserVars, aiVars, toolVars>>

\* the second download of the same simplified score
ExportAgain ==
  /\ pc = "exported"
  /\ exportedAgain' = generateMusicXML(simplified, now)
  /\ pc' = "reexported"
  /\ UNCHANGED <<parsed, analyzed, config, simplified, resimplified, exported, now,
                 notification, parserVars, aiVars, toolVars>>

ExportNext ==
  \/ \E scoreType \in ScoreTypes : AnalyzeScore(scoreType)
  \/ \E c \in Configs : SimplifyScore(c)
  \/ ExportScore
  \/ ExportAgain
  \/ Tick

ExportSpec == ExportInit /\ [][ExportNext]_vars

----------------------------------------------------------------------------
(* Uploading files: parseFile, parseMxlFile, parseXmlContent and           *)
(* handleFileUpload of App.vue.                                            *)

\* the scores the uploaded documents describe
UploadScores ==
  {ParsedScoreOf(CHOOSE md \in Metadatas : md.timeSignature.beats = 4, S, FALSE) :
     S \in {{2}, {2, 11}}}

\* A text is well-formed XML or not; score is what parseMetadata and
\* parseMeasures read from the document DOMParser builds of it.
Texts == {[wellFormed |-> w, score |-> s] : w \in BOOLEAN, s \in UploadScores}

\* the bytes of an archive read as text
ArchiveBytes == [wellFormed |-> FALSE, score |-> NoScore]

\* the texts of the entries: one well-formed, one not
EntryTexts ==
  {t \in Texts : t.wellFormed = (Len(t.score.measures[1].notes) = 1)}

EntryNames == {"score.xml", "score.musicxml", "META-INF/notes.xml"}

\* the entries of an archive besides META-INF/container.xml, in the order
\* of Object.keys(contents.files)
EntryLists ==
  {<< >>} \cup {<<[name |-> n, text |-> t]>> : n \in EntryNames, t \in EntryTexts}
         \cup {<<[name |-> "META-INF/notes.xml", text |-> t],
                 [name |-> "score.xml", text |-> t]>> : t \in EntryTexts}

\* the full-path of the rootfile of META-INF/container.xml; "" when the
\* archive has no container.xml or the container names no rootfile
RootFiles == {"", "score.xml", "score.musicxml", "missing.xml"}

FileExtensions == {"mxl", "MXL", "musicxml", "xml", "pdf"}

\* file.name is "score." followed by ext
Files ==
  {[ext |-> e, zip |-> FALSE, rootfile |-> "", entries |-> << >>, text |-> t] :
     e \in FileExtensions, t \in Texts}
  \cup
  {[ext |-> "mxl", zip |-> TRUE, rootfile |-> r, entries |-> l, text |-> ArchiveBytes] :
     r \in RootFiles, l \in EntryLists}
  \cup
  {[ext |-> "xml", zip |-> TRUE, rootfile |-> "", entries |-> << >>, text |-> ArchiveBytes]}

toLowerCase(ext) == IF ext = "MXL" THEN "mxl" ELSE ext

\* name.endsWith('.xml') on the entry names
endsWithXml(name) == name \in {"score.xml", "META-INF/notes.xml", "missing.xml"}

\* name.startsWith('META-INF') on the entry names
startsWithMetaInf(name) == name = "META-INF/notes.xml"

Failure(error) == [error |-> error, score |-> NoScore]

\* contents.file(path): the position of the entry of that name, 0 for null
zipFile(entries, path) ==
  FindIndex(entries, LAMBDA e : e.name = path)

\* parseMxlFile: the text of the root file of the archive, or the error
\* thrown
parseMxlFile(file) ==
  IF ~file.zip
  THEN [error |-> "ZIP_ERROR", text |-> ArchiveBytes]
  ELSE LET xmlFiles == SelectSeq(file.entries,
                         LAMBDA e : endsWithXml(e.name) /\ ~startsWithMetaInf(e.name))
           rootFilePath == IF file.rootfile # "" THEN file.rootfile
                           ELSE IF Len(xmlFiles) > 0 THEN xmlFiles[1].name
                           ELSE ""
       IN IF rootFilePath = "" \/ zipFile(file.entries, rootFilePath) = 0
          THEN [error |-> "PARSE_ERROR", text |-> ArchiveBytes]
          ELSE [error |-> "", text |-> file.entries[zipFile(file.entries, rootFilePath)].text]

\* parseXmlContent on a document whose parsererror is not looked at
parseXmlContentUnchecked(xmlContent) ==
  [error |-> "", score |-> xmlContent.score]

\* parseXmlContent: DOMParser puts a parsererror element into the document
\* of a text that is not well-formed
parseXmlContent(xmlContent) ==
  IF ~xmlContent.wellFormed
  THEN Failure("PARSE_ERROR")
  ELSE [error |-> "", score |-> xmlContent.score]

\* parseFile: the parsed score, or the error thrown
parseFile(file) ==
  LET fileName == toLowerCase(file.ext)
  IN IF fileName = "mxl"
     THEN LET xml == parseMxlFile(file)
          IN IF xml.error # "" THEN Failure(xml.error) ELSE parseXmlContent(xml.text)
     ELSE IF fileName = "musicxml" \/ fileName = "xml"
     THEN parseXmlContent(file.text)
     ELSE Failure("INVALID_FILE_FORMAT")

\* data() of App.vue: currentStep 1, nothing parsed yet
UploadInit ==
  /\ pc = "upload"
  /\ parsed = NoScore
  /\ analyzed = NoScore
  /\ config = NoConfig
  /\ simplified = NoScore
  /\ resimplified = NoScore
  /\ exported = NoScore
  /\ now = 0
  /\ exportedAgain = NoScore
  /\ notification = "none"
  /\ ParserIdle
  /\ SeparationIdle
  /\ RestIdle
  /\ ChunkIdle

\* handleFileUpload; the uploader of step 1 stays on the page at every step
HandleFileUpload(file) ==
  LET result == parseFile(file)
  IN /\ IF result.error = ""
        THEN /\ parsed' = result.score
             /\ notification' = "success"
             /\ pc' = "parsed"
        ELSE /\ notification' = IF result.error = "INVALID_FILE_FORMAT"
                                THEN "invalid-format" ELSE "parse-failed"
             /\ UNCHANGED <<parsed, pc>>
     /\ UNCHANGED <<analyzed, config, simplified, resimplified, exported, now,
                    exportedAgain, parserVars, aiVars, toolVars>>

\* the levels chosen between the uploads: Level 1 or Level 5, no sub-levels
UploadConfigs ==
  {c \in Configs : c.mainLevel \in {1, 5} /\ c.sopranoLevel = 0 /\ c.bassLevel = 0}

UploadNext ==
  \/ \E file \in Files : HandleFileUpload(file)
  \/ \E scoreType \in ScoreTypes : AnalyzeScore(scoreType)
  \/ \E c \in UploadConfigs : SimplifyScore(c)
  \/ ExportScore

UploadSpec == UploadInit /\ [][UploadNext]_vars

----------------------------------------------------------------------------
(* parseMeasures inside one measure: the walk over the measure's children. *)
(* currentBeat, lastNonChordBeat and the start beats are kept in units of  *)
(* 1/divisions of a beat, so beat 1 is measureDivisions and the divisions  *)
(* by divisions are exact.                                                 *)

\* the longest list of children walked
MaxChildren == 3

NoteChild(isRest, isChord, isGrace, duration) ==
  [tag |-> "note", rest |-> isRest, chord |-> isChord, grace |-> isGrace,
   duration |-> duration, dots |-> 0]

\* a note with <dot/> elements, its <duration> written with the dots
DottedNoteChild(duration, dots) ==
  [NoteChild(FALSE, FALSE, FALSE, duration) EXCEPT !.dots = dots]

\* The children of a measure: notes and rests with a <duration> of 1 or 2,
\* a dotted note with a <duration> of 3, chord members, grace notes (no
\* <duration>: 0), backup, forward, and another element.
Children ==
  {NoteChild(FALSE, FALSE, FALSE, d) : d \in 1..2}
  \cup {NoteChild(TRUE, FALSE, FALSE, 2), NoteChild(FALSE, TRUE, FALSE, 2),
        NoteChild(TRUE, TRUE, FALSE, 1), NoteChild(FALSE, FALSE, TRUE, 0),
        NoteChild(FALSE, TRUE, TRUE, 0), DottedNoteChild(3, 1)}
  \cup {[tag |-> t, rest |-> FALSE, chord |-> FALSE, grace |-> FALSE, duration |-> d,
          dots |-> 0] :
          t \in {"backup", "forward"}, d \in 1..2}
  \cup {[tag |-> "direction", rest |-> FALSE, chord |-> FALSE, grace |-> FALSE,
         duration |-> 0, dots |-> 0]}

ChildLists == UNION {[1..n -> Children] : n \in 0..MaxChildren}

ParseInit ==
  /\ pc = "upload"
  /\ parsed = NoScore
  /\ analyzed = NoScore
  /\ config = NoConfig
  /\ simplified = NoScore
  /\ resimplified = NoScore
  /\ exported = NoScore
  /\ now = 0
  /\ exportedAgain = NoScore
  /\ notification = "none"
  /\ measureDivisions \in 1..3
  /\ children \in ChildLists
  /\ walked = << >>
  /\ currentBeat = measureDivisions
  /\ lastNonChordBeat = measureDivisions
  /\ noteEvents = << >>
  /\ SeparationIdle
  /\ RestIdle
  /\ ChunkIdle

\* the start beat of a note that takes lastNonChordBeat when it is a chord
\* member or a grace note
noteStartBeatOfChordOrGrace(child, cursor, lastNonChord) ==
  IF child.chord \/ child.grace THEN lastNonChord ELSE cursor

\* noteStartBeat = isChord ? lastNonChordBeat : currentBeat
noteStartBeat(child, cursor, lastNonChord) ==
  IF child.chord THEN lastNonChord ELSE cursor

\* 2 to the power n
RECURSIVE PowerOfTwo(_)
PowerOfTwo(n) == IF n = 0 THEN 1 ELSE 2 * PowerOfTwo(n - 1)

\* parseDuration: dots and ticks of a <note>.  The ticks of the <duration>
\* (of divisions when the element is missing, 0 for a grace note), plus
\* half of them for the first dot, a quarter for the second, and so on:
\* ticks * (2 - 1 / 2^dots), rounded
parseDuration(child, divs) ==
  LET durationValue == IF child.grace THEN 0
                       ELSE IF child.duration = 0 THEN divs ELSE child.duration
  IN [dots |-> child.dots,
      ticks |-> MathRound(durationValue * 1024 * (PowerOfTwo(child.dots + 1) - 1),
                          divs * PowerOfTwo(child.dots))]

pipelineVars ==
  <<pc, parsed, analyzed, config, simplified, resimplified, exported, now,
    exportedAgain, notification>>

ParseBackup ==
  /\ children # << >>
  /\ Head(children).tag = "backup"
  /\ currentBeat' = currentBeat - Head(children).duration
  /\ lastNonChordBeat' = currentBeat'
  /\ children' = Tail(children)
  /\ walked' = Append(walked, Head(children))
  /\ UNCHANGED <<noteEvents, measureDivisions, pipelineVars, aiVars, toolVars>>

ParseForward ==
  /\ children # << >>
  /\ Head(children).tag = "forward"
  /\ currentBeat' = currentBeat + Head(children).duration
  /\ lastNonChordBeat' = currentBeat'
  /\ children' = Tail(children)
  /\ walked' = Append(walked, Head(children))
  /\ UNCHANGED <<noteEvents, measureDivisions, pipelineVars, aiVars, toolVars>>

\* a <note>: a rest, or a note with a pitch
ParseNoteChild ==
  /\ children # << >>
  /\ Head(children).tag = "note"
  /\ LET child == Head(children)
         start == noteStartBeat(child, currentBeat, lastNonChordBeat)
         advances == IF child.rest THEN ~child.chord
                     ELSE ~child.chord /\ ~child.grace /\ child.duration > 0
     IN /\ noteEvents' = Append(noteEvents, [rest |-> child.rest, chord |-> child.chord,
                                      grace |-> child.grace, startBeat |-> start,
                                      duration |-> parseDuration(child, measureDivisions)])
        /\ lastNonChordBeat' = IF advances THEN start ELSE lastNonChordBeat
        /\ currentBeat' = IF advances THEN currentBeat + child.duration ELSE currentBeat
  /\ children' = Tail(children)
  /\ walked' = Append(walked, Head(children))
  /\ UNCHANGED <<measureDivisions, pipelineVars, aiVars, toolVars>>

\* any other child is passed over
ParseOtherChild ==
  /\ children # << >>
  /\ Head(children).tag \notin {"backup", "forward", "note"}
  /\ children' = Tail(children)
  /\ walked' = Append(walked, Head(children))
  /\ UNCHANGED <<noteEvents, currentBeat, lastNonChordBeat, measureDivisions, pipelineVars, aiVars, toolVars>>

ParseNext ==
  \/ ParseBackup
  \/ ParseForward
  \/ ParseNoteChild
  \/ ParseOtherChild

ParseSpec == ParseInit /\ [][ParseNext]_vars

----------------------------------------------------------------------------
(* separateVoicesWithAI: src/ai/voiceSeparation.js.  The call runs         *)
(* applyAISeparation against a timer; applyAISeparation gives up control   *)
(* only while it awaits musicVAE.encode, so the timer can fire only then,  *)
(* and it goes on running after the timer has fired.                       *)

\* the longest run of single notes of the upper staff
MaxSingles == 4

\* a note of a staff: voicePart "" and beat 0 stand for undefined
AiNote(id, pitch, startBeat) ==
  [id |-> id, pitch |-> pitch, startBeat |-> startBeat, embellishment |-> FALSE,
   voicePart |-> "", beat |-> 0]

\* four two-note chords at beats 1 to 4
UpperChords ==
  <<AiNote(1, Pitch("E", 5), 1), AiNote(2, Pitch("C", 5), 1),
    AiNote(3, Pitch("F", 5), 2), AiNote(4, Pitch("D", 5), 2),
    AiNote(5, Pitch("E", 5), 3), AiNote(6, Pitch("C", 5), 3),
    AiNote(7, Pitch("D", 5), 4), AiNote(8, Pitch("B", 4), 4)>>

\* G4 (MIDI 67) and D5 (MIDI 74)
SinglePitches == {Pitch("G", 4), Pitch("D", 5)}

\* single notes on the whole beats from firstBeat on
Singles(firstBeat, pitches) ==
  [i \in 1..Len(pitches) |-> AiNote(10 + i, pitches[i], firstBeat + i - 1)]

UpperStaves ==
  {Singles(1, p) : p \in UNION {[1..n -> SinglePitches] : n \in 2..MaxSingles}}
  \cup {UpperChords \o Singles(5, p) : p \in [1..2 -> SinglePitches]}

\* nothing, E2 (MIDI 40) or G3 (MIDI 55) at beat 1
LowerStaves ==
  {<< >>} \cup {<<AiNote(20, p, 1)>> : p \in {Pitch("E", 2), Pitch("G", 3)}}

getMidi(note) ==
  (note.pitch.octave + 1) * 12 + PITCH_TO_SEMITONE(note.pitch.step) + note.pitch.alter

\* groupNotesByBeat: the groups in the order the Map got its keys; the
\* start beats here are whole beats, which Math.round(x * 2) / 2 keeps
groupNotesByBeat(notes) ==
  LET firsts == SelectSeq([i \in 1..Len(notes) |-> i],
                  LAMBDA i : \A j \in 1..(i - 1) : notes[j].startBeat # notes[i].startBeat)
  IN MapSeq(LAMBDA i : SelectSeq(notes, LAMBDA n : n.startBeat = notes[i].startBeat),
            firsts)

\* { ...n, voicePart, beat }
withVoice(note, voicePart, beat) ==
  [note EXCEPT !.voicePart = voicePart, !.beat = beat]

\* One staff of applyRuleBasedSeparation: the outer voice takes the first
\* note of every group of two or more in the order of sortKey, the inner
\* voice the others, and a group of one note is left pending.
ruleStaff(staffNotes, staff, sortKey(_)) ==
  LET groups == groupNotesByBeat(staffNotes)
      mainNotes(g) == SortByKey(SelectSeq(g, LAMBDA n : ~n.embellishment), sortKey)
      beatOf(g) == g[1].startBeat
      multi == SelectSeq(groups, LAMBDA g : Len(mainNotes(g)) >= 2)
      single == SelectSeq(groups, LAMBDA g : Len(mainNotes(g)) = 1)
  IN [outer |-> MapSeq(LAMBDA g : [note |-> mainNotes(g)[1], beat |-> beatOf(g)], multi),
      inner |-> Flatten(MapSeq(LAMBDA g :
                  MapSeq(LAMBDA n : [note |-> n, beat |-> beatOf(g)], Tail(mainNotes(g))),
                  multi)),
      pending |-> MapSeq(LAMBDA g : [note |-> mainNotes(g)[1], staff |-> staff,
                                      beat |-> beatOf(g)], single)]

applyRuleBasedSeparation(upperStaff, lowerStaff) ==
  LET upper == ruleStaff(upperStaff, "upper", LAMBDA n : 0 - getMidi(n))
      lower == ruleStaff(lowerStaff, "lower", LAMBDA n : getMidi(n))
      part(list, voicePart) == MapSeq(LAMBDA e : withVoice(e.note, voicePart, e.beat), list)
  IN [voices |-> [soprano |-> part(upper.outer, "soprano"),
                  alto |-> part(upper.inner, "alto"),
                  tenor |-> part(lower.inner, "tenor"),
                  bass |-> part(lower.outer, "bass")],
      pending |-> upper.pending \o lower.pending]

\* candidates of a pending item
candidates(item) ==
  IF item.staff = "upper" THEN <<"soprano", "alto">> ELSE <<"tenor", "bass">>

assignByPitchRange(note, staff) ==
  IF staff = "upper"
  THEN IF getMidi(note) >= 72 THEN "soprano" ELSE "alto"
  ELSE IF getMidi(note) < 48 THEN "bass" ELSE "tenor"

\* voices[assigned].push({ ...note, voicePart: assigned, beat })
pushVoice(vs, item, assigned) ==
  [vs EXCEPT ![assigned] = Append(@, withVoice(item.note, assigned, item.beat))]

\* assignPendingByRules: every pending item is pushed into the voices
\* object it is given
RECURSIVE assignPendingByRules(_, _)
assignPendingByRules(vs, items) ==
  IF items = << >> THEN vs
  ELSE assignPendingByRules(
         pushVoice(vs, Head(items), assignByPitchRange(Head(items).note, Head(items).staff)),
         Tail(items))

\* getContextNotes with range 2, and the list getNoteEmbedding builds
noteWithContext(item) ==
  LET allNotes == IF item.staff = "upper" THEN staves.upper ELSE staves.lower
      sorted == SortByStart(SelectSeq(allNotes, LAMBDA n : ~n.embellishment))
      targetIdx == FindIndex(sorted, LAMBDA n : n.startBeat = item.beat)
      before == IF targetIdx = 0 THEN << >>
                ELSE SubSeq(sorted, IF targetIdx > 2 THEN targetIdx - 2 ELSE 1, targetIdx - 1)
      after == IF targetIdx = 0 THEN << >>
               ELSE SubSeq(sorted, targetIdx + 1,
                           IF targetIdx + 2 <= Len(sorted) THEN targetIdx + 2 ELSE Len(sorted))
  IN before \o <<item.note>> \o after

\* notes.map(n => `${getMidi(n)}_${n.beat}`).join('|')
cacheKey(notes) == MapSeq(LAMBDA n : <<getMidi(n), n.beat>>, notes)

\* the list applyAISeparation asks an embedding for at its position
embeddedNotes ==
  IF ai.stage = "voices" THEN voices[VoiceNames[ai.index]]
  ELSE noteWithContext(pending[ai.index])

\* What getVoiceEmbedding (under getNoteEmbedding for a note) does with a
\* list before it awaits: null for fewer than 4 notes (3 for a note and
\* its context), the cached embedding, or a call of musicVAE.encode.
embeddingRequest(notes) ==
  IF Len(notes) < 4 THEN "null"
  ELSE IF cacheKey(notes) \in embeddingCache THEN "cached"
  ELSE "encode"

\* the position of applyAISeparation after the one at hand
nextPosition ==
  IF ai.stage = "voices"
  THEN IF ai.index < Len(VoiceNames)
       THEN [stage |-> "voices", index |-> ai.index + 1, waiting |-> FALSE, key |-> << >>]
       ELSE [stage |-> "notes", index |-> 1, waiting |-> FALSE, key |-> << >>]
  ELSE IF ai.index < Len(pending)
       THEN [stage |-> "notes", index |-> ai.index + 1, waiting |-> FALSE, key |-> << >>]
       ELSE [stage |-> "done", index |-> 0, waiting |-> FALSE, key |-> << >>]

\* applyAISeparation goes on with the embedding it asked for: hasEmbedding
\* is FALSE for null.  A voice embedding is stored; a pending note goes to
\* the voice knnVote picks among its candidates when the three embeddings
\* are there, and to the voice of assignByPitchRange otherwise.
Continue(hasEmbedding) ==
  /\ ai' = nextPosition
  /\ IF ai.stage = "voices"
     THEN /\ embeddings' = [embeddings EXCEPT ![VoiceNames[ai.index]] = hasEmbedding]
          /\ UNCHANGED voices
     ELSE LET item == pending[ai.index]
          IN /\ IF hasEmbedding /\ embeddings[candidates(item)[1]]
                                /\ embeddings[candidates(item)[2]]
                THEN \E label \in Range(candidates(item)) :
                       voices' = pushVoice(voices, item, label)
                ELSE voices' = pushVoice(voices, item,
                                         assignByPitchRange(item.note, item.staff))
             /\ UNCHANGED embeddings

otherVars == <<pipelineVars, parserVars, toolVars>>

AiInit ==
  /\ pc = "upload"
  /\ parsed = NoScore
  /\ analyzed = NoScore
  /\ config = NoConfig
  /\ simplified = NoScore
  /\ resimplified = NoScore
  /\ exported = NoScore
  /\ now = 0
  /\ exportedAgain = NoScore
  /\ notification = "none"
  /\ ParserIdle
  /\ staves \in {[upper |-> u, lower |-> l] : u \in UpperStaves, l \in LowerStaves}
  /\ isAIReady \in BOOLEAN
  /\ voices = NoVoices
  /\ pending = << >>
  /\ ai = AiIdle
  /\ embeddings = [v \in Range(VoiceNames) |-> FALSE]
  /\ embeddingCache = {}
  /\ oracle = [calls |-> 0, failed |-> FALSE]
  /\ caller = NotReturned
  /\ RestIdle
  /\ ChunkIdle

\* separateVoicesWithAI up to its await: the rule result, the return of
\* the rule result when nothing is pending, the rule fallback when the AI
\* is not used, or the start of applyAISeparation and of the timer
SeparateVoicesWithAI ==
  /\ caller.pc = "start"
  /\ LET ruleResult == applyRuleBasedSeparation(staves.upper, staves.lower)
     IN /\ pending' = ruleResult.pending
        /\ IF ruleResult.pending = << >>
           THEN /\ voices' = ruleResult.voices
                /\ caller' = [caller EXCEPT !.pc = "returned", !.method = "rule-only",
                                            !.result = ruleResult.voices]
                /\ UNCHANGED ai
           ELSE IF isAIReady
           THEN /\ voices' = ruleResult.voices
                /\ caller' = [caller EXCEPT !.pc = "racing"]
                /\ ai' = [stage |-> "voices", index |-> 1, waiting |-> FALSE, key |-> << >>]
           ELSE /\ voices' = assignPendingByRules(ruleResult.voices, ruleResult.pending)
                /\ caller' = [caller EXCEPT !.pc = "returned", !.method = "rule-fallback",
                                            !.result = voices']
                /\ UNCHANGED ai
  /\ UNCHANGED <<staves, isAIReady, embeddings, embeddingCache, oracle, otherVars>>

\* applyAISeparation asks for the next embedding and gets null or the
\* cached one at once
AiStep ==
  /\ ai.stage \in {"voices", "notes"}
  /\ ~ai.waiting
  /\ embeddingRequest(embeddedNotes) # "encode"
  /\ Continue(embeddingRequest(embeddedNotes) = "cached")
  /\ UNCHANGED <<staves, isAIReady, pending, embeddingCache, oracle, caller, otherVars>>

\* applyAISeparation calls musicVAE.encode and awaits the answer
CallOracle ==
  /\ ai.stage \in {"voices", "notes"}
  /\ ~ai.waiting
  /\ embeddingRequest(embeddedNotes) = "encode"
  /\ ai' = [ai EXCEPT !.waiting = TRUE, !.key = cacheKey(embeddedNotes)]
  /\ oracle' = [oracle EXCEPT !.calls = @ + 1]
  /\ UNCHANGED <<staves, isAIReady, voices, pending, embeddings, embeddingCache, caller,
                 otherVars>>

\* musicVAE.encode answers: the embedding is cached and returned
OracleAnswers ==
  /\ ai.waiting
  /\ embeddingCache' = embeddingCache \cup {ai.key}
  /\ Continue(TRUE)
  /\ UNCHANGED <<staves, isAIReady, pending, oracle, caller, otherVars>>

\* musicVAE.encode throws: getVoiceEmbedding catches and returns null
OracleThrows ==
  /\ ai.waiting
  /\ oracle' = [oracle EXCEPT !.failed = TRUE]
  /\ Continue(FALSE)
  /\ UNCHANGED <<staves, isAIReady, pending, embeddingCache, caller, otherVars>>

\* The timer wins the race while applyAISeparation awaits the oracle:
\* the catch block, then assignPendingByRules on the voices object as it
\* is, and the return.
Timeout ==
  /\ caller.pc = "racing"
  /\ ai.waiting
  /\ voices' = assignPendingByRules(voices, pending)
  /\ caller' = [pc |-> "returned", method |-> "rule-fallback", result |-> voices',
                callsAtReturn |-> oracle.calls, timedOut |-> TRUE]
  /\ UNCHANGED <<staves, isAIReady, pending, ai, embeddings, embeddingCache, oracle,
                 otherVars>>

\* applyAISeparation resolves first: the result is reported as AI-assisted
AiResolved ==
  /\ caller.pc = "racing"
  /\ ai.stage = "done"
  /\ caller' = [pc |-> "returned", method |-> "ai-assisted", result |-> voices,
                callsAtReturn |-> oracle.calls, timedOut |-> FALSE]
  /\ UNCHANGED <<staves, isAIReady, voices, pending, ai, embeddings, embeddingCache,
                 oracle, otherVars>>

AiNext ==
  \/ SeparateVoicesWithAI
  \/ AiStep
  \/ CallOracle
  \/ OracleAnswers
  \/ OracleThrows
  \/ Timeout
  \/ AiResolved

AiSpec == AiInit /\ [][AiNext]_vars

----------------------------------------------------------------------------
(* generateRestsForDuration called on a gap, as generateVoiceXMLAligned    *)
(* calls it with the whole number of divisions between the cursor and the  *)
(* next note or the measure end.                                           *)

\* the longest gap
MaxGap == 130

pipelineIdle ==
  /\ pc = "upload"
  /\ parsed = NoScore
  /\ analyzed = NoScore
  /\ config = NoConfig
  /\ simplified = NoScore
  /\ resimplified = NoScore
  /\ exported = NoScore
  /\ now = 0
  /\ exportedAgain = NoScore
  /\ notification = "none"

RestInit ==
  /\ pipelineIdle
  /\ ParserIdle
  /\ SeparationIdle
  /\ ChunkIdle
  /\ restPc = "call"
  /\ totalDuration \in 0..MaxGap
  /\ restXml = << >>

GenerateRests ==
  /\ restPc = "call"
  /\ restXml' = generateRestsForDuration(totalDuration, 1, 1)
  /\ restPc' = "returned"
  /\ UNCHANGED <<totalDuration, chunkVars, pipelineVars, parserVars, aiVars>>

RestNext == GenerateRests

RestSpec == RestInit /\ [][RestNext]_vars

----------------------------------------------------------------------------
(* Chunk processor: src/modules/chunkProcessor.js.  A score is split into  *)
(* chunks of measures, the chunks are processed in batches, and the        *)
(* processed chunks are merged.                                            *)

\* CONFIG of the chunk processor
CHUNK_SIZE == 8
OVERLAP_SIZE == 1
MAX_CONCURRENCY == 4

\* the longest list of measures
MaxMeasures == 10

Min(a, b) == IF a < b THEN a ELSE b
Max(a, b) == IF a > b THEN a ELSE b

\* measures.slice(from, to) with 0-based from (inclusive) and to (exclusive)
Slice(s, from, to) == SubSeq(s, from + 1, Min(to, Len(s)))

\* measure number k with one C4 on staff 1, tied over the bar line
\* ('pending') or not
ChunkMeasure(k, pendingTie) ==
  [number |-> k,
   notes |-> <<[id |-> ToString(k), pitch |-> Pitch("C", 4), staff |-> 1,
                tiedTo |-> IF pendingTie THEN "pending" ELSE None]>>]

\* lists of 0 to MaxMeasures measures with at most one pending tie
MeasureLists ==
  {[k \in 1..n |-> ChunkMeasure(k, k = tieAt)] : n \in 0..MaxMeasures, tieAt \in 0..MaxMeasures}

ChunkInit ==
  /\ pipelineIdle
  /\ ParserIdle
  /\ SeparationIdle
  /\ RestIdle
  /\ chunkPc = "start"
  /\ measuresIn \in MeasureLists
  /\ chunks = << >>
  /\ processedChunks = << >>
  /\ merged = << >>

\* the chunk the loop of splitIntoChunks pushes at index i
chunkAt(measures, i) ==
  LET startIdx == Max(0, i - OVERLAP_SIZE)
      endIdx == Min(Len(measures), i + CHUNK_SIZE + OVERLAP_SIZE)
  IN [id |-> MathFloor(i, CHUNK_SIZE),
      measures |-> Slice(measures, startIdx, endIdx),
      startIndex |-> i,
      originalStartIndex |-> startIdx,
      originalEndIndex |-> endIdx,
      isFirst |-> i = 0,
      isLast |-> i + CHUNK_SIZE >= Len(measures)]

\* splitIntoChunks: one chunk for i = 0, CHUNK_SIZE, 2 * CHUNK_SIZE, ...
\* below measures.length
splitIntoChunks(measures) ==
  [c \in 1..((Len(measures) + CHUNK_SIZE - 1) \div CHUNK_SIZE) |->
     chunkAt(measures, (c - 1) * CHUNK_SIZE)]

\* smoothChunkBoundaries: at the last measure of every run of CHUNK_SIZE
\* measures that has a successor, a note with a pending tie is tied to
\* the first note of the next measure with its pitch and staff
smoothChunkBoundaries(measures) ==
  [p \in 1..Len(measures) |->
     IF p % CHUNK_SIZE = 0 /\ p < Len(measures)
     THEN LET nextNotes == measures[p + 1].notes
              tie(note) ==
                LET matching == FindIndex(nextNotes,
                                  LAMBDA n : n.pitch.step = note.pitch.step
                                               /\ n.pitch.octave = note.pitch.octave
                                               /\ n.staff = note.staff)
                IN IF note.tiedTo = "pending" /\ matching # 0
                   THEN [note EXCEPT !.tiedTo = nextNotes[matching].id]
                   ELSE note
          IN [measures[p] EXCEPT !.notes = MapSeq(tie, measures[p].notes)]
     ELSE measures[p]]

\* the measures mergeChunks pushes for the chunks from index on: the first
\* chunk whole, the later ones without their first OVERLAP_SIZE measures
RECURSIVE pushChunks(_, _)
pushChunks(sorted, index) ==
  IF index > Len(sorted) THEN << >>
  ELSE (IF index = 1 THEN sorted[index].measures
        ELSE Slice(sorted[index].measures, OVERLAP_SIZE, Len(sorted[index].measures)))
       \o pushChunks(sorted, index + 1)

\* mergeChunks: sort by id, push, smooth
mergeChunks(processed) ==
  smoothChunkBoundaries(pushChunks(SortByKey(processed, LAMBDA chunk : chunk.id), 1))

SplitIntoChunks ==
  /\ chunkPc = "start"
  /\ chunks' = splitIntoChunks(measuresIn)
  /\ chunkPc' = "processing"
  /\ UNCHANGED <<measuresIn, processedChunks, merged, restVars, pipelineVars, parserVars,
                 aiVars>>

\* processChunksParallel: the next batch of at most MAX_CONCURRENCY chunks
\* goes through the processing function (here the identity) and its
\* results are pushed in the order of the batch
ProcessBatch ==
  /\ chunkPc = "processing"
  /\ Len(processedChunks) < Len(chunks)
  /\ processedChunks' =
       processedChunks
         \o Slice(chunks, Len(processedChunks), Len(processedChunks) + MAX_CONCURRENCY)
  /\ UNCHANGED <<chunkPc, measuresIn, chunks, merged, restVars, pipelineVars, parserVars,
                 aiVars>>

MergeChunks ==
  /\ chunkPc = "processing"
  /\ Len(processedChunks) = Len(chunks)
  /\ merged' = mergeChunks(processedChunks)
  /\ chunkPc' = "merged"
  /\ UNCHANGED <<measuresIn, chunks, processedChunks, restVars, pipelineVars, parserVars,
                 aiVars>>

ChunkNext ==
  \/ SplitIntoChunks
  \/ ProcessBatch
  \/ MergeChunks

ChunkSpec == ChunkInit /\ [][ChunkNext]_vars

----------------------------------------------------------------------------
(* Properties *)

Beats == parsed.metadata.timeSignature.beats
MeasureDuration == Beats * divisions
MeasureIndices == 1..Len(parsed.measures)

\* the durations of the events of a measure that advance the time cursor
\* in the given staff and voice (notes without <chord/> and rests)
advancingDurations(events, staff, voice) ==
  MapSeq(LAMBDA e : e.duration,
         SelectSeq(events, LAMBDA e : e.kind # "backup" /\ ~e.chord
                                        /\ e.staff = staff /\ e.voice = voice))

staffVoicePairs(events) ==
  {<<events[i].staff, events[i].voice>> : i \in {j \in 1..Len(events) : events[j].kind # "backup"}}

\* C1: Duration closure.  In every measure of the exported document, for
\* each (staff, voice) pair that appears in it, the durations of its
\* non-chord notes and rests add up to beats * 256.
C1_DurationClosure ==
  pc = "exported" =>
    \A m \in 1..Len(exported.measures) :
      \A sv \in staffVoicePairs(exported.measures[m].events) :
        SumSeq(advancingDurations(exported.measures[m].events, sv[1], sv[2])) = MeasureDuration

\* the time cursor before event i of a measure: non-chord durations emitted
\* so far minus the backups emitted so far
RECURSIVE cursorBefore(_, _)
cursorBefore(events, i) ==
  IF i = 1 THEN 0
  ELSE LET e == events[i - 1]
       IN cursorBefore(events, i - 1)
            + (IF e.kind = "backup" THEN 0 - e.duration
               ELSE IF e.chord THEN 0 ELSE e.duration)

\* C2: Voice alignment in the exporter.  In every exported grand-staff
\* measure the time cursor is 0 when the first event of each voice is
\* emitted, it never becomes negative, and a backup is emitted only when a
\* voice has been written in full (the cursor stands at the measure end).
C2_VoiceAlignment ==
  (pc = "exported" /\ exported.scoreType = "grand-staff") =>
    \A m \in 1..Len(exported.measures) :
      LET events == exported.measures[m].events
      IN \A i \in 1..Len(events) :
           /\ cursorBefore(events, i) >= 0
           /\ (events[i].kind # "backup"
                 /\ \A j \in 1..(i - 1) : events[j].voice # events[i].voice)
                => cursorBefore(events, i) = 0
           /\ events[i].kind = "backup" => cursorBefore(events, i) = MeasureDuration

\* simplifyScore has run (its result is in simplified)
Simplified == pc \in {"simplified", "resimplified", "exported"}

DefaultSubLevels == config.sopranoLevel = 0 /\ config.bassLevel = 0

\* the measures simplifyScore passes to the level rules
RuleMeasures ==
  {m \in MeasureIndices :
     ~(m = 1 /\ isAnacrusis(analyzed.measures[1], analyzed.metadata.timeSignature))}

sameNote(a, b) ==
  a.pitch = b.pitch /\ a.startBeat = b.startBeat /\ a.duration = b.duration

\* C3: Lock preservation.  At main level 4 and 5 with default sub-levels,
\* every note the analyzer locked is in the simplified measure with the
\* same pitch, startBeat and duration.
C3_LockPreservation ==
  (Simplified /\ config.mainLevel \in {4, 5} /\ DefaultSubLevels) =>
    \A m \in MeasureIndices :
      \A i \in 1..Len(analyzed.measures[m].notes) :
        analyzed.measures[m].notes[i].isLocked =>
          \E k \in 1..Len(simplified.measures[m].notes) :
            sameNote(simplified.measures[m].notes[k], analyzed.measures[m].notes[i])

\* id, startBeat and duration of the notes without an embellishment tag
unembellished(notes) ==
  MapSeq(LAMBDA n : <<n.id, n.startBeat, n.duration>>,
         SelectSeq(notes, LAMBDA n : n.embellishment = None))

FirstIsAnacrusis ==
  Len(analyzed.measures) > 0
    /\ isAnacrusis(analyzed.measures[1], analyzed.metadata.timeSignature)

\* C4: Anacrusis invariance.  When the first measure is detected as an
\* anacrusis, the simplified first measure holds the input notes without
\* the embellishment-tagged ones (same count, startBeat and duration) at
\* every main level and sub-level.
C4_AnacrusisInvariance ==
  (Simplified /\ FirstIsAnacrusis) =>
    MapSeq(LAMBDA n : <<n.id, n.startBeat, n.duration>>, simplified.measures[1].notes)
      = unembellished(analyzed.measures[1].notes)

\* an anacrusis with a grace note and a main note was simplified at Level 1
C4_Witness ==
  /\ pc = "simplified" /\ FirstIsAnacrusis /\ config.mainLevel = 1
  /\ \E i \in 1..Len(analyzed.measures[1].notes) :
       analyzed.measures[1].notes[i].embellishment # None
  /\ Len(simplified.measures[1].notes) = 2
  /\ simplified.measures[1].notes[2].startBeat > Beat(1)

\* C5: Metadata round trip.  title, composer, timeSignature and
\* keySignature of the simplified score are those of the parsed score.
C5_MetadataRoundTrip ==
  Simplified =>
    /\ simplified.metadata.title = parsed.metadata.title
    /\ simplified.metadata.composer = parsed.metadata.composer
    /\ simplified.metadata.timeSignature = parsed.metadata.timeSignature
    /\ simplified.metadata.keySignature = parsed.metadata.keySignature

\* a two-measure grand-staff score in 3/4 was simplified at Level 3
C5_Witness ==
  /\ pc = "simplified" /\ simplified.scoreType = "grand-staff"
  /\ config.mainLevel = 3
  /\ parsed.metadata.title = "Untitled"
  /\ parsed.metadata.timeSignature.beats = 3
  /\ Len(parsed.measures) = 2

noteSet(notes) ==
  {[id |-> n.id, pitch |-> n.pitch, startBeat |-> n.startBeat,
    duration |-> n.duration, staff |-> n.staff] : n \in Range(notes)}

\* C6: Idempotence of Level 5.  Level 5 (with default sub-levels) applied
\* to its own output yields the same set of notes (id, pitch, startBeat,
\* duration, staff) in every measure.
C6_Level5Idempotent ==
  (pc = "resimplified" /\ config.mainLevel = 5 /\ DefaultSubLevels) =>
    \A m \in MeasureIndices :
      noteSet(resimplified.measures[m].notes) = noteSet(simplified.measures[m].notes)

\* Level 5 was re-applied to a single-staff measure that went through the
\* rule, had an embellishment and kept two notes
C6_Witness ==
  /\ pc = "resimplified" /\ config.mainLevel = 5 /\ DefaultSubLevels
  /\ simplified.scoreType = "single-staff"
  /\ \E m \in RuleMeasures :
       /\ \E i \in 1..Len(parsed.measures[m].notes) :
            parsed.measures[m].notes[i].embellishment # None
       /\ Len(simplified.measures[m].notes) = 2
       /\ Len(resimplified.measures[m].notes) = 2

SingleStaffAt(level) ==
  Simplified /\ simplified.scoreType = "single-staff" /\ config.mainLevel = level

\* distance in beats from strong beat number i to the next strong beat, or
\* to the end of the measure after the last one
strongBeatSpan(ts, i) ==
  LET S == getStrongBeats(ts)
  IN (IF i < Len(S) THEN S[i + 1] ELSE ts.beats + 1) - S[i]

startsAndTicks(notes) == MapSeq(LAMBDA n : <<n.startBeat, n.duration.ticks>>, notes)

\* the measure of the Level 2 example: 4/4, notes at beat 1 (half),
\* beat 2.5 (quarter) and beat 3 (quarter)
IsLevel2Example(m) ==
  /\ analyzed.metadata.timeSignature.beats = 4
  /\ startsAndTicks(analyzed.measures[m].notes)
       = <<<<Beat(1), 2048>>, <<(5 * BeatUnit) \div 2, 1024>>, <<Beat(3), 1024>>>>

Level2ExampleResult(m) ==
  IsLevel2Example(m) =>
    startsAndTicks(simplified.measures[m].notes)
      = <<<<Beat(1), 2048>>, <<Beat(3), 2048>>>>

\* C7 as stated: a single-staff Level 2 measure has at most one note per
\* strong beat, each placed at its strong beat s and lasting until the next
\* strong beat (or the end of the measure).
C7_Level2AtStrongBeats ==
  SingleStaffAt(2) =>
    \A m \in RuleMeasures :
      LET ts == analyzed.metadata.timeSignature
          S == getStrongBeats(ts)
          out == simplified.measures[m].notes
      IN /\ Len(out) <= Len(S)
         /\ \A k \in 1..Len(out) :
              \E i \in 1..Len(S) :
                /\ out[k].startBeat = Beat(S[i])
                /\ out[k].duration.ticks = strongBeatSpan(ts, i) * 1024
         /\ \A k1, k2 \in 1..Len(out) :
              k1 # k2 => out[k1].startBeat # out[k2].startBeat
         /\ Level2ExampleResult(m)

\* C7: Level 2 keeps at most one note per strong beat, and each lasts from
\* its strong beat s until the next strong beat (or the end of the measure).
\* Each is placed at s, except that the note kept for the first strong beat
\* stays where it was when it is the earliest note of the measure and
\* starts before beat 1.
C7_Level2OnePerStrongBeat ==
  SingleStaffAt(2) =>
    \A m \in RuleMeasures :
      LET ts == analyzed.metadata.timeSignature
          S == getStrongBeats(ts)
          in == SelectSeq(analyzed.measures[m].notes, LAMBDA n : n.embellishment = None)
          out == simplified.measures[m].notes
          isEarliest(o) == \A j \in 1..Len(in) : o.startBeat <= in[j].startBeat
          pickup(n) == \E j \in 1..Len(in) :
                         /\ in[j].id = n.id /\ isEarliest(in[j])
                         /\ in[j].startBeat < Beat(1)
                         /\ in[j].startBeat = n.startBeat
          slot(k) == IF pickup(out[k]) THEN 1
                     ELSE FindIndex(S, LAMBDA s : Beat(s) = out[k].startBeat)
      IN /\ Len(out) <= Len(S)
         /\ \A k \in 1..Len(out) :
              /\ slot(k) # 0
              /\ out[k].duration.ticks = strongBeatSpan(ts, slot(k)) * 1024
         /\ \A k1, k2 \in 1..Len(out) : k1 # k2 => slot(k1) # slot(k2)
         /\ Level2ExampleResult(m)

\* the example measure was simplified at Level 2
C7_Witness ==
  /\ pc = "simplified" /\ SingleStaffAt(2)
  /\ \E m \in RuleMeasures :
       /\ IsLevel2Example(m)
       /\ Len(simplified.measures[m].notes) = 2

\* C8: Level 1 collapses a measure that is not a kept anacrusis to one note:
\* the non-embellishment note with the smallest startBeat, pitch and id
\* unchanged, at beat 1 and lasting the whole measure; to no note when the
\* measure has no such note.
C8_Level1OneNote ==
  SingleStaffAt(1) =>
    \A m \in RuleMeasures :
      LET ts == analyzed.metadata.timeSignature
          in == SelectSeq(analyzed.measures[m].notes, LAMBDA n : n.embellishment = None)
          out == simplified.measures[m].notes
      IN IF Len(in) = 0 THEN out = << >>
         ELSE /\ Len(out) = 1
              /\ out[1].startBeat = Beat(1)
              /\ out[1].duration.ticks = ts.beats * 1024
              /\ \E i \in 1..Len(in) :
                   /\ \A j \in 1..Len(in) : in[i].startBeat <= in[j].startBeat
                   /\ out[1].id = in[i].id
                   /\ out[1].pitch = in[i].pitch

\* Level 1 collapsed a measure whose earliest note is not its first note
\* and does not start at beat 1
C8_Witness ==
  /\ pc = "simplified" /\ SingleStaffAt(1)
  /\ \E m \in RuleMeasures :
       LET in == SelectSeq(analyzed.measures[m].notes, LAMBDA n : n.embellishment = None)
       IN /\ Len(in) >= 2
          /\ Len(simplified.measures[m].notes) = 1
          /\ simplified.measures[m].notes[1].id # in[1].id
          /\ \E i \in 1..Len(in) :
               /\ in[i].id = simplified.measures[m].notes[1].id
               /\ in[i].startBeat # Beat(1)

eventsOfStaff(events, staff) == SelectSeq(events, LAMBDA e : e.staff = staff)

isFullMeasureRest(events) ==
  Len(events) = 1 /\ events[1].kind = "rest" /\ events[1].duration = MeasureDuration

staffIsEmpty(notes, staff) == \A i \in 1..Len(notes) : notes[i].staff # staff

\* C9: Empty voice.  A staff of a grand-staff measure (or a whole
\* single-staff measure) without input notes has no simplified notes and is
\* exported as exactly one rest lasting the whole measure.
C9_EmptyVoice ==
  pc = "exported" =>
    \A m \in MeasureIndices :
      LET in == parsed.measures[m].notes
          out == simplified.measures[m].notes
          events == exported.measures[m].events
      IN IF exported.scoreType = "grand-staff"
         THEN \A staff \in {1, 2} :
                staffIsEmpty(in, staff) =>
                  /\ staffIsEmpty(out, staff)
                  /\ isFullMeasureRest(eventsOfStaff(events, staff))
         ELSE in = << >> => (out = << >> /\ isFullMeasureRest(events))

\* a grand-staff score in 3/4 whose upper staff is empty in a measure with
\* notes on the lower staff was exported
C9_Witness ==
  /\ pc = "exported" /\ exported.scoreType = "grand-staff"
  /\ parsed.metadata.timeSignature.beats = 3
  /\ \E m \in MeasureIndices :
       /\ staffIsEmpty(parsed.measures[m].notes, 1)
       /\ ~staffIsEmpty(simplified.measures[m].notes, 2)
       /\ isFullMeasureRest(eventsOfStaff(exported.measures[m].events, 1))

allowedVoiceParts(level) ==
  CASE level = 1 -> {"soprano", "bass"}
    [] level = 2 -> {"soprano", "alto", "bass"}
    [] level = 3 -> {"soprano", "tenor", "bass"}
    [] OTHER -> {"soprano", "alto", "tenor", "bass"}

voicePartsOf(notes) == {notes[i].voicePart : i \in 1..Len(notes)}

GrandStaffAt(levels) ==
  Simplified /\ simplified.scoreType = "grand-staff" /\ config.mainLevel \in levels

\* C10 as stated: every grand-staff measure simplified at Level 1, 2 or 3
\* holds notes of the voices of that level only.
C10_VoiceCompositionEveryMeasure ==
  GrandStaffAt({1, 2, 3}) =>
    \A m \in MeasureIndices :
      voicePartsOf(simplified.measures[m].notes) \subseteq allowedVoiceParts(config.mainLevel)

\* C10: Grand-staff voice composition.  Every measure other than a first
\* measure kept as an anacrusis holds, at Level 1, soprano and bass notes
\* only; at Level 2, soprano, alto and bass; at Level 3, soprano, tenor and
\* bass.
C10_VoiceComposition ==
  GrandStaffAt({1, 2, 3}) =>
    \A m \in RuleMeasures :
      voicePartsOf(simplified.measures[m].notes) \subseteq allowedVoiceParts(config.mainLevel)

\* a measure with an alto note was simplified at Level 1 to soprano and bass
C10_Witness ==
  /\ pc = "simplified" /\ GrandStaffAt({1})
  /\ \E m \in RuleMeasures :
       /\ "alto" \in voicePartsOf(analyzed.measures[m].notes)
       /\ voicePartsOf(simplified.measures[m].notes) = {"soprano", "bass"}

canonicalTag(part) ==
  CASE part = "soprano" -> <<1, 1>>
    [] part = "alto" -> <<1, 2>>
    [] part = "tenor" -> <<2, 1>>
    [] part = "bass" -> <<2, 2>>
    [] OTHER -> <<0, 0>>

canonicallyTagged(notes) ==
  \A i \in 1..Len(notes) :
    <<notes[i].staff, notes[i].voice>> = canonicalTag(notes[i].voicePart)

\* C11 as stated: every note of every measure of a grand-staff simplified
\* score has the (staff, voice) pair of its voicePart: soprano (1,1),
\* alto (1,2), tenor (2,1), bass (2,2).
C11_CanonicalTagsEveryMeasure ==
  GrandStaffAt(1..5) =>
    \A m \in MeasureIndices : canonicallyTagged(simplified.measures[m].notes)

\* C11: Canonical voice tags.  At every main level, every note of every
\* measure of a grand-staff simplified score, other than a first measure
\* kept as an anacrusis, has the (staff, voice) pair of its voicePart:
\* soprano (1,1), alto (1,2), tenor (2,1), bass (2,2).
C11_CanonicalTags ==
  GrandStaffAt(1..5) =>
    \A m \in RuleMeasures : canonicallyTagged(simplified.measures[m].notes)

\* a note parsed in voice 2 of the upper staff came out as the soprano
C11_Witness ==
  /\ pc = "simplified" /\ GrandStaffAt(1..5)
  /\ \E m \in RuleMeasures :
       \E i \in 1..Len(analyzed.measures[m].notes) :
         \E k \in 1..Len(simplified.measures[m].notes) :
           /\ analyzed.measures[m].notes[i].id = simplified.measures[m].notes[k].id
           /\ analyzed.measures[m].notes[i].voice = 2
           /\ simplified.measures[m].notes[k].voicePart = "soprano"
           /\ simplified.measures[m].notes[k].voice = 1

\* the sub-levels documented for a main level
allowedSubLevels(mainLevel) ==
  CASE mainLevel = 1 -> 1..5
    [] mainLevel \in {2, 3, 4} -> 2..5
    [] OTHER -> 4..5

\* the notes of one voice part in a simplified measure
voiceOutput(m, part) ==
  SelectSeq(simplified.measures[m].notes, LAMBDA n : n.voicePart = part)

\* the notes of that voice part when the voice is simplified at level
voiceAtLevel(m, part, level) ==
  LET measure == analyzed.measures[m]
      separated == separateVoices(SelectSeq(measure.notes, LAMBDA n : n.staff = 1),
                                  SelectSeq(measure.notes, LAMBDA n : n.staff = 2))
      voiceNotes == IF part = "soprano" THEN separated.soprano ELSE separated.bass
      applied == IF Len(voiceNotes) > 0
                 THEN applySingleStaffSimplification(
                        [measure EXCEPT !.notes = voiceNotes], level,
                        analyzed.metadata.timeSignature).notes
                 ELSE << >>
  IN MapSeq(LAMBDA n : [n EXCEPT !.voicePart = part,
                                 !.staff = canonicalTag(part)[1],
                                 !.voice = canonicalTag(part)[2]], applied)

\* C12: Sub-level clamping.  Whatever sopranoLevel and bassLevel a
\* grand-staff score is simplified with, the soprano and the bass of every
\* measure come out as simplified at a level inside the range allowed for
\* the main level (1..5 for 1, 2..5 for 2, 3 and 4, 4..5 for 5).
C12_SubLevelClamping ==
  GrandStaffAt(1..5) =>
    \A m \in RuleMeasures :
      \A part \in {"soprano", "bass"} :
        \E level \in allowedSubLevels(config.mainLevel) :
          voiceOutput(m, part) = voiceAtLevel(m, part, level)

\* C15: No stage mutates its input.  After simplifyScore (and after the
\* export that follows it) the analyzed score passed to simplifyScore is
\* still the value analyzeScore returned, field by field, and the parsed
\* score is still what the analyzer was given.
C15_NoInputMutation ==
  Simplified =>
    /\ analyzed = analyzeScore(parsed, simplified.scoreType)
    /\ parsed \in ParsedScores

uniqueIds(notes) ==
  \A i, j \in 1..Len(notes) : i # j => notes[i].id # notes[j].id

idsOf(notes) == {notes[i].id : i \in 1..Len(notes)}

\* C18: Note ids are unique and stable.  In every measure of the parsed,
\* the analyzed and the simplified score no two notes have the same id, and
\* every simplified note carries the id of a note of the input measure.
C18_UniqueStableIds ==
  /\ \A m \in MeasureIndices : uniqueIds(parsed.measures[m].notes)
  /\ pc # "parsed" =>
       \A m \in MeasureIndices :
         /\ uniqueIds(analyzed.measures[m].notes)
         /\ idsOf(analyzed.measures[m].notes) = idsOf(parsed.measures[m].notes)
  /\ Simplified =>
       \A m \in MeasureIndices :
         /\ uniqueIds(simplified.measures[m].notes)
         /\ idsOf(simplified.measures[m].notes) \subseteq idsOf(analyzed.measures[m].notes)

consistentDurations(notes) ==
  \A i \in 1..Len(notes) :
    notes[i].duration.tuplet = NoTuplet =>
      getDurationTicks(notes[i].duration.type, notes[i].duration.dots)
        = notes[i].duration.ticks

\* C19: Duration consistency.  For every non-tuplet note of the parsed
\* score and of the simplified score at every level, the ticks re-derived
\* from its type and dots are its duration.ticks.
C19_DurationConsistency ==
  /\ \A m \in MeasureIndices : consistentDurations(parsed.measures[m].notes)
  /\ Simplified =>
       \A m \in MeasureIndices : consistentDurations(simplified.measures[m].notes)

isTiedOffBeat(note) ==
  /\ note.startBeat = (7 * BeatUnit) \div 2
  /\ note.tiedTo # None
  /\ note.embellishment = None

\* the note comes out of single-staff Level 4 as it went in
survivesLevel4(m, note) ==
  SingleStaffAt(4) =>
    \E k \in 1..Len(simplified.measures[m].notes) :
      /\ simplified.measures[m].notes[k].id = note.id
      /\ sameNote(simplified.measures[m].notes[k], note)

tiedLockReason(note, ts) ==
  LET S == getStrongBeats(ts)
      endBeat == note.startBeat + (note.duration.ticks * BeatUnit) \div 1024
      reachesStrongBeat ==
        /\ \A i \in 1..Len(S) : S[i] # 3
        /\ \E i \in 1..Len(S) : note.startBeat < Beat(S[i]) /\ endBeat >= Beat(S[i])
  IN IF reachesStrongBeat THEN "syncopation"
     ELSE IF note.duration.dots > 0 /\ note.duration.ticks >= 512 THEN "dotted_rhythm"
     ELSE "cross_beat_tie"

unsupportedExtension(file) ==
  file.ext \notin {"mxl", "MXL", "musicxml", "xml"}

rootDocuments(file) ==
  {i \in 1..Len(file.entries) :
     IF file.rootfile # "" THEN file.entries[i].name = file.rootfile
     ELSE file.entries[i].name = "score.xml"}

documentOf(file) ==
  IF file.ext \in {"mxl", "MXL"}
  THEN file.entries[CHOOSE i \in rootDocuments(file) : \A j \in rootDocuments(file) : i <= j].text
  ELSE file.text

hasFormatError(file) ==
  \/ unsupportedExtension(file)
  \/ file.ext \in {"mxl", "MXL"} /\ (~file.zip \/ rootDocuments(file) = {})
  \/ ~unsupportedExtension(file)
       /\ ~(file.ext \in {"mxl", "MXL"} /\ (~file.zip \/ rootDocuments(file) = {}))
       /\ ~documentOf(file).wellFormed

\* C13: No partial success on format errors.  An upload of a file with an
\* unsupported extension, of an archive without a resolvable root document
\* or of a document that is not well-formed ends in an error notification
\* and leaves the parsed score, the workflow step and every later result
\* of the application as they were; any other upload stores the score of
\* the document and moves to the score-type step.
C13_NoPartialSuccess ==
  [][\A file \in Files :
       ((pc' = pc \/ pc' = "parsed") /\ HandleFileUpload(file)) =>
         IF hasFormatError(file)
         THEN /\ notification' \in {"invalid-format", "parse-failed"}
              /\ (notification' = "invalid-format") = unsupportedExtension(file)
              /\ UNCHANGED <<pc, parsed, analyzed, config, simplified, exported>>
         ELSE /\ notification' = "success"
              /\ parsed' = documentOf(file).score
              /\ pc' = "parsed"]_vars

\* a failed upload after a score was simplified: the simplified score and
\* its step are still there
C13_Witness ==
  /\ pc = "simplified"
  /\ notification = "parse-failed"
  /\ parsed \in UploadScores
  /\ simplified # NoScore

\* the duration a walked child adds to the cursor according to C20
cursorShare(child) ==
  CASE child.tag = "backup" -> 0 - child.duration
    [] child.tag = "forward" -> child.duration
    [] child.tag = "note" /\ ~child.chord /\ ~child.grace -> child.duration
    [] OTHER -> 0

\* after the walked children the cursor is 1 + (notes and rests + forwards
\* - backups) / divisions
cursorIsSumOfWalked ==
  currentBeat = measureDivisions + SumSeq(MapSeq(cursorShare, walked))

\* what a step over the next child does to the start beat and the cursor,
\* when the start beat of a <note> is startOf(child)
walkStep(startOf(_)) ==
  children # << >> =>
    LET child == Head(children)
    IN /\ currentBeat' = currentBeat + cursorShare(child)
       /\ child.tag = "note" =>
            /\ Len(noteEvents') = Len(noteEvents) + 1
            /\ noteEvents'[Len(noteEvents')].startBeat = startOf(child)

timesIn(item, voiceNotes) ==
  Cardinality({i \in 1..Len(voiceNotes) : voiceNotes[i].id = item.note.id})

\* every pending note stands once in the result, in the voice of the pitch
\* threshold
assignedByThreshold(result) ==
  \A i \in 1..Len(pending) :
    \A v \in Range(VoiceNames) :
      timesIn(pending[i], result[v])
        = IF v = assignByPitchRange(pending[i].note, pending[i].staff) THEN 1 ELSE 0

\* C14: Oracle fallback.  When the call has returned after the timer fired
\* or after the embedding call threw, every ambiguous note is assigned by
\* the pitch threshold, the method is 'rule-fallback', and the oracle has
\* not been called since the return.
C14_OracleFallback ==
  (caller.pc = "returned" /\ (caller.timedOut \/ oracle.failed)) =>
    /\ caller.method = "rule-fallback"
    /\ assignedByThreshold(caller.result)
    /\ oracle.calls = caller.callsAtReturn

\* The lock rules of C21 in their order, each as the claim words it, for
\* the note at index i of a measure's notes.
crossesOrReachesStrongBeat(note, ts) ==
  /\ ~(MathFloor(note.startBeat, BeatUnit) \in Range(getStrongBeats(ts)))
  /\ \E sb \in Range(getStrongBeats(ts)) :
       /\ note.startBeat < Beat(sb)
       /\ note.startBeat + TicksToPos(note.duration.ticks) >= Beat(sb)

\* the span of a tuplet group: normal notes of the written type
tupletGroupSpan(note) ==
  TicksToPos(note.duration.tuplet.normal * getDurationTicks(note.duration.type, 0))

\* the groups of a tuplet follow each other from beat 1 on
firstOfTupletGroup(note) ==
  /\ note.duration.tuplet # NoTuplet
  /\ (note.startBeat - Beat(1)) % tupletGroupSpan(note) = 0

turningPoint(notes, i) ==
  LET staffIdx == SelectSeq([k \in 1..Len(notes) |-> k],
                            LAMBDA k : notes[k].staff = notes[i].staff)
      at == CHOOSE k \in 1..Len(staffIdx) : staffIdx[k] = i
      midi(k) == pitchToMidi(notes[staffIdx[k]].pitch)
  IN /\ at > 1 /\ at < Len(staffIdx)
     /\ \A k \in {at - 1, at, at + 1} : notes[staffIdx[k]].embellishment = None
     /\ \/ midi(at) > midi(at - 1) /\ midi(at) > midi(at + 1)
        \/ midi(at) < midi(at - 1) /\ midi(at) < midi(at + 1)

lockRules(notes, i, ts) ==
  LET note == notes[i]
  IN <<[reason |-> "syncopation", holds |-> crossesOrReachesStrongBeat(note, ts)],
       [reason |-> "dotted_rhythm",
        holds |-> note.duration.dots > 0 /\ note.duration.ticks >= 512],
       [reason |-> "cross_beat_tie", holds |-> note.tiedTo # None],
       [reason |-> "off_beat_start",
        holds |-> 2 * (note.startBeat % BeatUnit) >= BeatUnit
                    /\ 2 * note.duration.ticks >= TicksPerBeat],
       [reason |-> "triplet_head", holds |-> firstOfTupletGroup(note)],
       [reason |-> "melodic_turning_point", holds |-> turningPoint(notes, i)],
       [reason |-> "phrase_ending",
        holds |-> i = Len(notes) /\ note.duration.ticks >= 1024]>>

\* the reason of the first rule that holds, None when none does
firstLockRule(notes, i, ts) ==
  LET rules == lockRules(notes, i, ts)
      first == FindIndex(rules, LAMBDA r : r.holds)
  IN IF first = 0 THEN None ELSE rules[first].reason

\* C21: Lock priority.  After analysis a note is locked iff it is not
\* embellishment-tagged and satisfies a lock rule, its lockReason is that
\* of the first rule it satisfies (syncopation, dotted rhythm, tie, off-beat
\* start, first note of a tuplet group, melodic turning point, last note of
\* the measure with ticks >= 1024), a note has a lockReason iff it is
\* locked, and no embellishment-tagged note is locked.
C21_LockPriority ==
  pc = "analyzed" =>
    \A m \in 1..Len(analyzed.measures) :
      LET notes == analyzed.measures[m].notes
      IN \A i \in 1..Len(notes) :
           /\ notes[i].isLocked = (notes[i].lockReason # None)
           /\ notes[i].embellishment # None => ~notes[i].isLocked
           /\ notes[i].embellishment = None =>
                notes[i].lockReason = firstLockRule(notes, i, analyzed.metadata.timeSignature)

\* the note starts on a non-strong beat and some strong beat lies strictly
\* inside its span
crossesStrongBeat(note, ts) ==
  /\ ~(MathFloor(note.startBeat, BeatUnit) \in Range(getStrongBeats(ts)))
  /\ \E sb \in Range(getStrongBeats(ts)) :
       /\ note.startBeat < Beat(sb)
       /\ Beat(sb) < note.startBeat + TicksToPos(note.duration.ticks)

\* C22: Syncopation rule.  A non-embellishment note is locked with reason
\* syncopation iff it starts on a non-strong beat and some strong beat sb
\* satisfies startBeat < sb < startBeat + ticks/1024; a note that ends
\* exactly on a strong beat is not locked as syncopation.
C22_SyncopationRule ==
  pc = "analyzed" =>
    \A m \in 1..Len(analyzed.measures) :
      \A n \in Range(analyzed.measures[m].notes) :
        n.embellishment = None =>
          ((n.isLocked /\ n.lockReason = "syncopation")
             <=> crossesStrongBeat(n, analyzed.metadata.timeSignature))

\* the input notes without an embellishment tag that start in [b, b + 1)
startingInBeat(in, b) ==
  {i \in 1..Len(in) : Beat(b) <= in[i].startBeat /\ in[i].startBeat < Beat(b + 1)}

\* an input note sounds at beat b
soundsAtBeat(in, b) ==
  \E i \in 1..Len(in) :
    in[i].startBeat <= Beat(b) /\ Beat(b) < in[i].startBeat + TicksToPos(in[i].duration.ticks)

\* C23: Level 3 keeps beat heads.  Single-staff Level 3 outputs at most one
\* note per integer beat 1..beats, each at an integer startBeat with 1024
\* ticks; the note kept for beat b is the earliest non-embellishment note
\* that starts in [b, b+1), and a beat in which no note starts or sounds
\* produces no note.
C23_Level3BeatHeads ==
  SingleStaffAt(3) =>
    \A m \in RuleMeasures :
      LET ts == analyzed.metadata.timeSignature
          in == SelectSeq(analyzed.measures[m].notes, LAMBDA n : n.embellishment = None)
          out == simplified.measures[m].notes
          at(b) == {k \in 1..Len(out) : out[k].startBeat = Beat(b)}
      IN /\ \A k \in 1..Len(out) :
              /\ \E b \in 1..ts.beats : out[k].startBeat = Beat(b)
              /\ out[k].duration.ticks = 1024
         /\ \A b \in 1..ts.beats :
              /\ Cardinality(at(b)) <= 1
              /\ startingInBeat(in, b) # {} =>
                   \E k \in at(b) : \E i \in startingInBeat(in, b) :
                     /\ \A j \in startingInBeat(in, b) :
                          in[i].startBeat < in[j].startBeat
                            \/ (in[i].startBeat = in[j].startBeat /\ i <= j)
                     /\ out[k].id = in[i].id
              /\ (startingInBeat(in, b) = {} /\ ~soundsAtBeat(in, b)) => at(b) = {}

\* the notes of the input Level 4 keeps as they are
keptAtLevel4(n) == n.isLocked \/ n.duration.ticks >= 512

\* the notes of the input Level 4 snaps
snappedAtLevel4(n) ==
  n.embellishment = None /\ n.duration.tuplet = NoTuplet /\ ~keptAtLevel4(n)

\* the distance of a position to a point of the eighth-note grid
gridPoints(ts) == {k * (BeatUnit \div 2) : k \in 0..(2 * ts.beats + 2)}

\* the grid positions nearest to a position
nearestGrid(pos, ts) ==
  {g \in gridPoints(ts) : \A h \in gridPoints(ts) : Abs(pos - g) <= Abs(pos - h)}

\* the last grid position at or before a position
gridAtOrBefore(pos, ts) ==
  {g \in gridPoints(ts) : g <= pos /\ pos < g + BeatUnit \div 2}

\* Level 4 on every measure the rules see, when a snapped note goes to one
\* of the grid positions target(note)
level4Snaps(target(_, _)) ==
  SingleStaffAt(4) =>
    \A m \in RuleMeasures :
      LET ts == analyzed.metadata.timeSignature
          in == analyzed.measures[m].notes
          out == simplified.measures[m].notes
          isSnapOf(o, n) == /\ o.id = n.id /\ o.pitch = n.pitch
                            /\ o.startBeat \in target(n.startBeat, ts)
                            /\ o.duration.ticks = 512
      IN /\ \A i \in 1..Len(in) :
              (in[i].embellishment = None /\ keptAtLevel4(in[i])) =>
                \E k \in 1..Len(out) : out[k] = in[i]
         /\ \A k \in 1..Len(out) :
              /\ out[k].embellishment = None
              /\ \E i \in 1..Len(in) :
                   /\ in[i].embellishment = None
                   /\ IF keptAtLevel4(in[i]) THEN out[k] = in[i]
                      ELSE in[i].duration.tuplet # NoTuplet \/ isSnapOf(out[k], in[i])
         /\ \A i \in 1..Len(in) :
              snappedAtLevel4(in[i]) =>
                \E j \in 1..Len(in) :
                  /\ snappedAtLevel4(in[j])
                  /\ target(in[j].startBeat, ts) \cap target(in[i].startBeat, ts) # {}
                  /\ \E k \in 1..Len(out) : isSnapOf(out[k], in[j])
         /\ \A k, l \in 1..Len(out) :
              (k # l /\ \E i, j \in 1..Len(in) :
                          /\ snappedAtLevel4(in[i]) /\ isSnapOf(out[k], in[i])
                          /\ snappedAtLevel4(in[j]) /\ isSnapOf(out[l], in[j]))
                => out[k].startBeat # out[l].startBeat

\* C24 as stated: a short unlocked note goes to the eighth-note grid
\* position nearest to its startBeat.
C24_Level4SnapsToNearest == level4Snaps(nearestGrid)

\* C24: Level 4 snapping.  Single-staff Level 4 outputs every locked note
\* and every note of 512 ticks or more unchanged; every other
\* non-embellishment, non-tuplet note is output with 512 ticks at the last
\* eighth-note grid position at or before its startBeat, at most one such
\* note per grid slot (the first in startBeat order); embellishment-tagged
\* notes are never output.
C24_Level4Snapping == level4Snaps(gridAtOrBefore)

\* Level 4 moved the 32nd note at beat 1.875 back to beat 1.5
C24_Witness ==
  /\ pc = "simplified" /\ SingleStaffAt(4)
  /\ \E m \in RuleMeasures :
       /\ \E n \in Range(analyzed.measures[m].notes) :
            snappedAtLevel4(n) /\ n.startBeat = (15 * BeatUnit) \div 8
              /\ \E o \in Range(simplified.measures[m].notes) :
                   o.id = n.id /\ o.startBeat = (6 * BeatUnit) \div 4
       /\ \E n \in Range(analyzed.measures[m].notes) : n.isLocked /\ n.duration.ticks < 512

\* C25: Rest filling.  For every gap g >= 0 in divisions,
\* generateRestsForDuration returns, and the rests it emits have durations
\* that sum to exactly g.
C25_RestFilling ==
  restPc = "returned" =>
    SumSeq(MapSeq(LAMBDA e : e.duration, restXml)) = totalDuration

\* the quarter-beat group of a note: Math.round(startBeat * 4) / 4
quarterBeatGroup(note) == MathRound(note.startBeat * 4, BeatUnit)

occurrencesOf(id, notes) == Cardinality({i \in 1..Len(notes) : notes[i].id = id})

\* primary and secondary partition the main notes of a staff, and each
\* quarter-beat group has one primary note, of extreme pitch in the group
partitionByExtreme(staffNotes, primary, secondary, isExtreme(_, _)) ==
  LET mainNotes == SelectSeq(staffNotes, LAMBDA n : n.embellishment = None)
      mainIds == {mainNotes[i].id : i \in 1..Len(mainNotes)}
  IN /\ \A i \in 1..Len(mainNotes) :
          occurrencesOf(mainNotes[i].id, primary)
            + occurrencesOf(mainNotes[i].id, secondary) = 1
     /\ \A k \in 1..Len(primary) : primary[k].id \in mainIds
     /\ \A k \in 1..Len(secondary) : secondary[k].id \in mainIds
     /\ \A i \in 1..Len(mainNotes) :
          LET group == SelectSeq(mainNotes,
                         LAMBDA n : quarterBeatGroup(n) = quarterBeatGroup(mainNotes[i]))
              heads == SelectSeq(primary,
                         LAMBDA n : quarterBeatGroup(n) = quarterBeatGroup(mainNotes[i]))
          IN /\ Len(heads) = 1
             /\ \A j \in 1..Len(group) :
                  isExtreme(pitchToMidi(heads[1].pitch), pitchToMidi(group[j].pitch))

\* C26: Rule-tier voice separation is a partition by pitch extreme.  For
\* every measure, separateVoices puts every non-embellishment staff-1 note
\* in exactly one of soprano or alto and every non-embellishment staff-2
\* note in exactly one of tenor or bass; within each quarter-beat group of a
\* staff exactly one note is primary, the highest of the group on staff 1
\* (soprano) and the lowest on staff 2 (bass), and the others are secondary.
C26_PartitionByPitchExtreme ==
  (pc = "simplified" /\ simplified.scoreType = "grand-staff") =>
    \A m \in MeasureIndices :
      LET notes == analyzed.measures[m].notes
          upperStaff == SelectSeq(notes, LAMBDA n : n.staff = 1)
          lowerStaff == SelectSeq(notes, LAMBDA n : n.staff = 2)
          separated == separateVoices(upperStaff, lowerStaff)
      IN /\ partitionByExtreme(upperStaff, separated.soprano, separated.alto,
                               LAMBDA head, other : head >= other)
         /\ partitionByExtreme(lowerStaff, separated.bass, separated.tenor,
                               LAMBDA head, other : head <= other)
         /\ \A k \in 1..Len(separated.soprano) : separated.soprano[k].voicePart = "soprano"
         /\ \A k \in 1..Len(separated.alto) : separated.alto[k].voicePart = "alto"
         /\ \A k \in 1..Len(separated.tenor) : separated.tenor[k].voicePart = "tenor"
         /\ \A k \in 1..Len(separated.bass) : separated.bass[k].voicePart = "bass"

\* a grand-staff measure was simplified in which two notes of different
\* start and pitch share a quarter-beat group of the upper staff, next to
\* a note of the lower staff
C26_Witness ==
  /\ pc = "simplified" /\ simplified.scoreType = "grand-staff"
  /\ \E m \in MeasureIndices :
       LET notes == analyzed.measures[m].notes
       IN /\ \E i, j \in 1..Len(notes) :
               /\ notes[i].staff = 1 /\ notes[j].staff = 1
               /\ notes[i].embellishment = None /\ notes[j].embellishment = None
               /\ notes[i].startBeat # notes[j].startBeat
               /\ quarterBeatGroup(notes[i]) = quarterBeatGroup(notes[j])
               /\ pitchToMidi(notes[i].pitch) # pitchToMidi(notes[j].pitch)
          /\ \E i \in 1..Len(notes) : notes[i].staff = 2

\* the end of the latest note of a (staff, voice) group: the largest
\* startBeat + ticks / 1024 among its notes
latestEnd(notes, key) ==
  LET ends == {notes[i].startBeat + TicksToPos(notes[i].duration.ticks) :
                 i \in {j \in 1..Len(notes) : <<notes[j].staff, notes[j].voice>> = key}}
  IN CHOOSE e \in ends : \A f \in ends : f <= e

\* first measure, at least one note, and every (staff, voice) group ends
\* (counted from beat 1) before 0.9 * beats
detectedAsAnacrusis(m) ==
  LET notes == analyzed.measures[m].notes
      keys == {<<notes[i].staff, notes[i].voice>> : i \in 1..Len(notes)}
  IN /\ m = 1
     /\ Len(notes) >= 1
     /\ \A key \in keys :
          10 * (latestEnd(notes, key) - Beat(1))
            < 9 * Beat(analyzed.metadata.timeSignature.beats)

\* the measure as the level rules of the score type return it
throughLevelRules(m) ==
  LET measure == analyzed.measures[m]
      ts == analyzed.metadata.timeSignature
  IN IF analyzed.scoreType = "single-staff"
     THEN applySingleStaffSimplification(measure, config.mainLevel, ts)
     ELSE applyGrandStaffSimplification(measure, config.mainLevel, ts,
            [sopranoLevel |-> IF config.sopranoLevel # 0 THEN config.sopranoLevel
                              ELSE getDefaultSopranoLevel(config.mainLevel),
             bassLevel |-> IF config.bassLevel # 0 THEN config.bassLevel
                           ELSE getDefaultBassLevel(config.mainLevel)])

\* C27: Anacrusis detection.  The simplifier treats a measure as anacrusis
\* iff it is the first measure, it has at least one note, and the maximum
\* over its (staff, voice) groups of (largest startBeat + ticks / 1024 of
\* the group, minus 1) is strictly less than 0.9 * beats; exactly that
\* measure is passed through with only the embellishment-tagged notes
\* removed, and every other measure goes through the level rules.
C27_AnacrusisDetection ==
  pc = "simplified" =>
    /\ Len(simplified.measures) = Len(analyzed.measures)
    /\ \A m \in 1..Len(analyzed.measures) :
         simplified.measures[m] =
           IF detectedAsAnacrusis(m)
           THEN [analyzed.measures[m] EXCEPT
                   !.notes = SelectSeq(analyzed.measures[m].notes,
                                       LAMBDA n : n.embellishment = None)]
           ELSE throughLevelRules(m)

\* a pickup measure with a grace note was passed through where the level
\* rules would have changed it
C27_Witness ==
  /\ pc = "simplified"
  /\ detectedAsAnacrusis(1)
  /\ \E i \in 1..Len(analyzed.measures[1].notes) :
       analyzed.measures[1].notes[i].embellishment # None
  /\ throughLevelRules(1) # simplified.measures[1]

\* how many times the note stands in the four voice lists together
timesAssigned(note, result) ==
  SumSeq([k \in 1..Len(VoiceNames) |->
            Cardinality({i \in 1..Len(result[VoiceNames[k]]) :
                           result[VoiceNames[k]][i].id = note.id})])

\* C28: Exactly-once voice assignment under the timeout race.  For every
\* interleaving of the embedding task and the timer, once
\* separateVoicesWithAI has resolved every non-embellishment input note
\* stands exactly once across the four returned voice lists, and the
\* returned lists (the lists of the voices object) are as they were
\* returned.
C28_ExactlyOnceUnderTimeout ==
  caller.pc = "returned" =>
    /\ \A n \in Range(staves.upper) \cup Range(staves.lower) :
         ~n.embellishment => timesAssigned(n, caller.result) = 1
    /\ voices = caller.result

\* C29: Parsed duration matches cursor advance.  For every non-chord,
\* non-grace note or rest the parser creates (dotted or not, tuplet or
\* not), duration.ticks = 1024 * (the amount in beats by which parsing
\* that element advanced the cursor), so that in a voice written without
\* gaps each note's startBeat + ticks / 1024 equals the next startBeat.
C29_DurationMatchesCursorAdvance ==
  [][(children # << >> /\ Head(children).tag = "note"
        /\ ~Head(children).chord /\ ~Head(children).grace)
       => noteEvents'[Len(noteEvents')].duration.ticks * measureDivisions
            = 1024 * (currentBeat' - currentBeat)]_vars

\* C30: Chunking is transparent.  For every list of measures of any
\* length, merging the chunks produced by splitIntoChunks (chunk size 8,
\* overlap 1) with an identity processing step returns the same measures
\* in the same order, each exactly once.
C30_ChunkingIsTransparent ==
  chunkPc = "merged" => merged = measuresIn

====
